---- MODULE Spec2Model ----
(***************************************************************************)
(* Model of the timesheet validator: the rule engine validateTimesheet     *)
(* (src/src/utils/validator.ts, second definition, lines 155-439) applied  *)
(* to bounded record sequences under a wall clock that may advance.        *)
(*                                                                         *)
(* Conventions                                                             *)
(*  - hour buckets are JS numbers; a record holds each as the integer of   *)
(*    its hundredths (40 h = 4000, 0.01 h = 1), standing for the double    *)
(*    nearest to that decimal; sums and differences are taken in doubles.  *)
(*  - Date.getTime() is kept in whole hours since 1970-01-01T00:00Z; every *)
(*    instant the model uses is a whole hour.                              *)
(*  - a string field that is absent from the parsed object (undefined) is  *)
(*    the value Undefined; "" is the empty string.                         *)
(*  - a finding's message is its template; interpolated values are not     *)
(*    part of the model.                                                   *)
(***************************************************************************)
EXTENDS Integers, Sequences, FiniteSets, TLC

VARIABLES entries, validation, previous, clk, now,
          filteredEntries, isProcessing, error, hasProcessed, activeTab, uploads,
          sortField, sortDirection,
          csvFile, settled

vars == <<entries, validation, previous, clk, now,
          filteredEntries, isProcessing, error, hasProcessed, activeTab, uploads,
          sortField, sortDirection, csvFile, settled>>

(***************************************************************************)
(* Bounds of the model.                                                    *)
(***************************************************************************)
MaxEntries == 3
MaxRows == 1

\* Uploads in flight at a time.
MaxUploads == 2

\* Records handed to a table.
MaxShown == 2

(***************************************************************************)
(* JavaScript values and primitives used by the validator.                 *)
(***************************************************************************)
Undefined == "<undefined>"

\* !x for a string-typed property: undefined and "" are falsy.
Falsy(s) == s = Undefined \/ s = ""

Abs(x) == IF x < 0 THEN -x ELSE x

\* Number.prototype.toFixed is a method of numbers only: calling it on any
\* other receiver throws a TypeError.
ToFixedThrows(x) == DOMAIN x # {"n", "r", "p"}

HoursPerDay == 24

\* Days from 1970-01-01 to the civil date y-m-d (proleptic Gregorian).
DaysFromCivil(y, m, d) ==
    LET yy  == IF m <= 2 THEN y - 1 ELSE y
        era == yy \div 400
        yoe == yy - era * 400
        mp  == (m + 9) % 12
        doy == (153 * mp + 2) \div 5 + d - 1
        doe == yoe * 365 + yoe \div 4 - yoe \div 100 + doy
    IN  era * 146097 + doe - 719468

\* Date.UTC(y, m, d, h) in hours.
DateUTC(y, m, d, h) == DaysFromCivil(y, m, d) * HoursPerDay + h

InvalidDate == [valid |-> FALSE, time |-> 0]

ValidDate(t) == [valid |-> TRUE, time |-> t]

\* new Date(s) for the date strings of the model: ISO 8601 date and
\* date-time forms (parsed as UTC); any other text is an Invalid Date.
NewDate(s) ==
    CASE s = "2022-06-01"        -> ValidDate(DateUTC(2022, 6, 1, 0))
      [] s = "2023-06-01"        -> ValidDate(DateUTC(2023, 6, 1, 0))
      [] s = "2023-12-31"        -> ValidDate(DateUTC(2023, 12, 31, 0))
      [] s = "2024-01-01"        -> ValidDate(DateUTC(2024, 1, 1, 0))
      [] s = "2024-02-08"        -> ValidDate(DateUTC(2024, 2, 8, 0))
      [] s = "2024-02-15"        -> ValidDate(DateUTC(2024, 2, 15, 0))
      [] s = "2024-12-25"        -> ValidDate(DateUTC(2024, 12, 25, 0))
      [] s = "2025-01-01"        -> ValidDate(DateUTC(2025, 1, 1, 0))
      [] s = "2025-01-06"        -> ValidDate(DateUTC(2025, 1, 6, 0))
      [] s = "2025-01-13"        -> ValidDate(DateUTC(2025, 1, 13, 0))
      [] s = "2025-01-20"        -> ValidDate(DateUTC(2025, 1, 20, 0))
      [] s = "2025-01-20T01:00Z" -> ValidDate(DateUTC(2025, 1, 20, 1))
      [] s = "2025-01-21"        -> ValidDate(DateUTC(2025, 1, 21, 0))
      [] s = "2025-02-15"        -> ValidDate(DateUTC(2025, 2, 15, 0))
      [] s = "2025-02-22"        -> ValidDate(DateUTC(2025, 2, 22, 0))
      [] OTHER                   -> InvalidDate

\* isNaN(date.getTime())
IsNaNTime(date) == ~date.valid

\* A reading of the wall clock, new Date(), as its civil fields (UTC).
Civil(y, m, d, h) == [y |-> y, m |-> m, d |-> d, h |-> h]

\* date.getTime() of a clock reading.
TimeOf(c) == DateUTC(c.y, c.m, c.d, c.h)

\* The instants the wall clock is read at: the last hour of 2024, the first
\* of 2025, and two later days.
ClockYearEnd == Civil(2024, 12, 31, 23)
ClockNewYear == Civil(2025, 1, 1, 0)
ClockEarly == Civil(2025, 2, 1, 0)
ClockLate  == Civil(2025, 3, 1, 0)
ClockValues == {ClockYearEnd, ClockNewYear, ClockEarly, ClockLate}

\* The instants of a run that starts in February 2025.
LateClocks == {ClockEarly, ClockLate}

ClockTime == [c \in ClockValues |-> TimeOf(c)]

\* yearAgo = new Date(); yearAgo.setFullYear(currentDate.getFullYear() - 1):
\* the second clock reading c2, moved to the year before the year of the
\* first reading c1 (a day past the month's end carries into the next month).
YearAgo(c1, c2) == DateUTC(c1.y - 1, c2.m, c2.d, c2.h)

(***************************************************************************)
(* Numbers. An hour value of a record is held as the integer n of its      *)
(* hundredths: the record's number is the IEEE-754 double nearest to the   *)
(* decimal n/100, as parseFloat yields it. Comparing two such numbers is   *)
(* comparing their hundredths; adding and subtracting them is not adding   *)
(* and subtracting hundredths, since every operation rounds to 53          *)
(* significant bits. A double x is the record [n, r, p] with               *)
(*     100 * x = n + r / 2^p     and     x a multiple of 2^(-p),           *)
(* so r / 2^p is the distance of x from the decimal n/100 (times 100).     *)
(* The arithmetic is exact for magnitudes from 0.01 to 256 hours.          *)
(***************************************************************************)
MantissaBits == 52

Pow2(k) == 2 ^ k

\* 2^k modulo 100, for k up to 63. Multiplied out in steps that stay small.
Pow2Mod100 ==
    [k \in 0..63 |->
        LET a == 2 ^ (k % 8)
            b == (2 ^ 8) % 100
            c == k \div 8
        IN  (a * ((b ^ (c % 4)) % 100) * ((((b ^ 4) % 100) ^ (c \div 4)) % 100)) % 100]

\* The largest e >= from with 100 * 2^e <= n, for n >= 100 * 2^from.
RECURSIVE ExponentUp(_, _)
ExponentUp(n, from) ==
    IF 100 * Pow2(from + 1) <= n THEN ExponentUp(n, from + 1) ELSE from

\* The smallest k >= from with n * 2^k >= 100, for 0 < n.
RECURSIVE ExponentDown(_, _)
ExponentDown(n, from) ==
    IF n * Pow2(from) < 100 THEN ExponentDown(n, from + 1) ELSE from

\* The binary exponent of the decimal n/100, n > 0: 2^e <= n/100 < 2^(e+1).
Exponent(n) == IF n >= 100 THEN ExponentUp(n, 0) ELSE -ExponentDown(n, 0)

Zero == [n |-> 0, r |-> 0, p |-> 0]

IsZero(x) == x.n = 0 /\ x.r = 0

Negate(x) == [n |-> -x.n, r |-> -x.r, p |-> x.p]

\* The double nearest to the decimal n/100 (round to nearest): with
\* p = 52 - e and M the integer nearest to n * 2^p / 100, the double is
\* M / 2^p and r = 100 * M - n * 2^p.
DoubleOfPositive(n) ==
    LET p == MantissaBits - Exponent(n)
        q == ((n % 100) * Pow2Mod100[p]) % 100
    IN  [n |-> n, r |-> IF q < 50 THEN -q ELSE 100 - q, p |-> p]

\* A multiple of 0.25 is a double itself (and a multiple of 2^(-2)).
Double(n) ==
    IF n = 0 THEN Zero
    ELSE IF n % 25 = 0 THEN [n |-> n, r |-> 0, p |-> 2]
    ELSE IF n < 0 THEN Negate(DoubleOfPositive(-n))
    ELSE DoubleOfPositive(n)

\* The inverse of 25 modulo 2^16, and so modulo every smaller power of two.
Inverse25 == CHOOSE x \in 0..(2 ^ 16 - 1) : (25 * x) % (2 ^ 16) = 1

\* N + R / 2^P >= 100 * 2^e, for N > 0 and |R| / 2^P < 1 / 2^|e|.
AtLeastPower(N, R, e) ==
    IF e >= 0
    THEN N > 100 * Pow2(e) \/ (N = 100 * Pow2(e) /\ R >= 0)
    ELSE N * Pow2(-e) > 100 \/ (N * Pow2(-e) = 100 /\ R >= 0)

\* The binary exponent of (N + R / 2^P) / 100, for N > 0.
Binade(N, R) ==
    IF AtLeastPower(N, R, Exponent(N)) THEN Exponent(N) ELSE Exponent(N) - 1

\* The exact value (N + R / 2^P) / 100, N > 0, a multiple of 2^(-P), rounded
\* to 53 significant bits, ties to even. With J = (N * 2^P + R) / 100 the
\* integer to round and j the number of bits to drop, the dropped bits are
\* J mod 2^j = ((R / 4) * (1/25)) mod 2^j.
RoundPositive(N, R, P) ==
    LET pc   == MantissaBits - Binade(N, R)
        j    == P - pc
        m    == Pow2(j)
        m2   == 2 * m
        low2 == (((R \div 4) % m2) * (Inverse25 % m2)) % m2
        low  == low2 % m
        up   == low > m \div 2 \/ (low = m \div 2 /\ low2 >= m)
        R2   == IF up THEN R + 100 * (m - low) ELSE R - 100 * low
    IN  IF pc >= P THEN [n |-> N, r |-> R, p |-> P]
        ELSE [n |-> N, r |-> R2 \div m, p |-> pc]

\* r * 2^k
Scaled(r, k) == IF r = 0 THEN 0 ELSE r * Pow2(k)

\* x + y on doubles. The exact sum is (N + R / 2^P) / 100, a multiple of
\* 2^(-P). With N = 0 it has fewer than 53 significant bits; with R = 0 it is
\* the decimal N/100 and a multiple of 2^(-P), so a multiple of 0.25: either
\* way it is a double and the addition is exact.
DoubleAdd(x, y) ==
    IF IsZero(x) THEN y
    ELSE IF IsZero(y) THEN x
    ELSE LET P == IF x.p > y.p THEN x.p ELSE y.p
             N == x.n + y.n
             R == Scaled(x.r, P - x.p) + Scaled(y.r, P - y.p)
         IN  IF N = 0 THEN (IF R = 0 THEN Zero ELSE [n |-> 0, r |-> R, p |-> P])
             ELSE IF R = 0 THEN [n |-> N, r |-> 0, p |-> P]
             ELSE IF N < 0 THEN Negate(RoundPositive(-N, -R, P))
             ELSE RoundPositive(N, R, P)

\* x - y on doubles.
DoubleSub(x, y) == DoubleAdd(x, Negate(y))

\* x > y on doubles.
DoubleGreater(x, y) ==
    IF x.n - y.n >= 1 THEN TRUE
    ELSE IF x.n - y.n <= -1 THEN FALSE
    ELSE IF IsZero(x) THEN y.r < 0
    ELSE IF IsZero(y) THEN x.r > 0
    ELSE LET P == IF x.p > y.p THEN x.p ELSE y.p
         IN  Scaled(x.r, P - x.p) - Scaled(y.r, P - y.p) > 0

\* Math.abs(x)
DoubleAbs(x) == IF DoubleGreater(Zero, x) THEN Negate(x) ELSE x

(***************************************************************************)
(* Findings.                                                               *)
(***************************************************************************)
Finding(row, field, message, severity) ==
    [row |-> row, field |-> field, message |-> message, severity |-> severity]

Err(row, field, message) == Finding(row, field, message, "error")

Warn(row, field, message) == Finding(row, field, message, "warning")

\* errors.push(f) and warnings.push(f): the checks yield their pushes in
\* program order, each naming the array it goes to.
PushError(f) == [onto |-> "errors", finding |-> f]

PushWarning(f) == [onto |-> "warnings", finding |-> f]

\* The findings pushed onto one array, in push order.
OntoErrors(p) == p.onto = "errors"

OntoWarnings(p) == p.onto = "warnings"

FindingsOf(pushes) == [i \in 1..Len(pushes) |-> pushes[i].finding]

MsgIdRequired      == "Employee ID is required"
MsgStartRequired   == "Start date is required"
MsgEndRequired     == "End date is required"
MsgStatusRequired  == "Timesheet status is required"
MsgUnknownStatus   == "Unknown status. Expected: Approved, Partially Submitted, Needs Approval, Not Submitted, Absence/Holiday, Partially Approved"
MsgStartFormat     == "Invalid start date format"
MsgEndFormat       == "Invalid end date format"
MsgEndAfterStart   == "End date must be after start date"
MsgLongPeriod      == "Long period. Typical periods are 7-14 days"
MsgScheduleNeg     == "Schedule hours cannot be negative"
MsgScheduleHigh    == "Schedule hours over 80 seems unusually high for a period"
MsgNegative        == "cannot be negative"
MsgTotalMismatch   == "Total hours doesn't match calculated total"
MsgExceedWarn      == "Reported hours exceed schedule hours"
MsgExceedErr       == "Reported hours cannot exceed schedule hours"
MsgApprovedNoHours == "Approved timesheet should have hours recorded"
MsgNotSubmitted    == "Not submitted timesheet has hours recorded - status may be incorrect"
MsgAbsence         == "Absence/Holiday status should not have regular or overtime hours"
MsgSubmittedNoHours == "Submitted timesheet should have hours recorded"
MsgFutureStart     == "Start date is in the future"
MsgStaleEnd        == "End date is more than 1 year ago"
MsgNoBreakdown     == "Reported hours exist but no breakdown provided (regular, overtime, holiday, leave)"
MsgNoReported      == "Hour breakdown provided but reported hours is zero"

validStatuses ==
    {"Approved", "Partially Submitted", "Needs Approval", "Not Submitted",
     "Absence/Holiday", "Partially Approved"}

\* Rule thresholds, in the model's units.
LongPeriodDays == 14
ScheduleCeiling == 8000
TotalTolerance == 1

(***************************************************************************)
(* The per-record checks of validateTimesheet, in source order. Each       *)
(* yields the sequence of its pushes.                                      *)
(***************************************************************************)
\* Mutant: the 0-based index is used as the row.
RowIsIndex(index) == index

\* const row = index + 1
RowOf(index) == index + 1

\* Mutant: only the empty string counts as missing (value === '').
RequiredCheckEmptyOnly(value, row, field, message) ==
    IF value = "" THEN <<PushError(Err(row, field, message))>> ELSE <<>>

\* if (!entry.<field>) errors.push(...)
RequiredCheck(value, row, field, message) ==
    IF Falsy(value) THEN <<PushError(Err(row, field, message))>> ELSE <<>>

\* Mutant: the membership test is a separate if, not an else-if.
StatusCheckNoElse(entry, row) ==
    (IF Falsy(entry.timesheetStatus)
     THEN <<PushError(Err(row, "timesheetStatus", MsgStatusRequired))>> ELSE <<>>)
    \o
    (IF entry.timesheetStatus \notin validStatuses
     THEN <<PushWarning(Warn(row, "timesheetStatus", MsgUnknownStatus))>> ELSE <<>>)

\* if (!entry.timesheetStatus) error else if (!validStatuses.includes(..)) warning
StatusCheck(entry, row) ==
    IF Falsy(entry.timesheetStatus)
    THEN <<PushError(Err(row, "timesheetStatus", MsgStatusRequired))>>
    ELSE IF entry.timesheetStatus \notin validStatuses
         THEN <<PushWarning(Warn(row, "timesheetStatus", MsgUnknownStatus))>>
         ELSE <<>>

\* Mutant: the gate is entry.startDate || entry.endDate.
EitherDatePresent(entry) == ~Falsy(entry.startDate) \/ ~Falsy(entry.endDate)

\* if (entry.startDate && entry.endDate)
BothDatesPresent(entry) == ~Falsy(entry.startDate) /\ ~Falsy(entry.endDate)

\* Mutant: the comparison is endDate < startDate.
EndBeforeStart(startDate, endDate) == endDate.time < startDate.time

\* if (endDate <= startDate) errors.push(...)
EndNotAfterStart(startDate, endDate) == endDate.time <= startDate.time

\* Mutant: the comparison is daysDiff >= 14.
IsLongPeriodInclusive(startDate, endDate) ==
    endDate.time - startDate.time >= LongPeriodDays * HoursPerDay

\* daysDiff > 14, with daysDiff = (end.getTime() - start.getTime()) / msPerDay
IsLongPeriod(startDate, endDate) ==
    endDate.time - startDate.time > LongPeriodDays * HoursPerDay

\* Date format and range validation.
DateFormatRange(entry, row) ==
    IF ~BothDatesPresent(entry) THEN <<>>
    ELSE LET startDate == NewDate(entry.startDate)
             endDate   == NewDate(entry.endDate)
             bothParse == ~IsNaNTime(startDate) /\ ~IsNaNTime(endDate)
         IN  (IF IsNaNTime(startDate)
              THEN <<PushError(Err(row, "startDate", MsgStartFormat))>> ELSE <<>>)
             \o
             (IF IsNaNTime(endDate)
              THEN <<PushError(Err(row, "endDate", MsgEndFormat))>> ELSE <<>>)
             \o
             (IF bothParse /\ EndNotAfterStart(startDate, endDate)
              THEN <<PushError(Err(row, "endDate", MsgEndAfterStart))>> ELSE <<>>)
             \o
             (IF bothParse /\ IsLongPeriod(startDate, endDate)
              THEN <<PushWarning(Warn(row, "endDate", MsgLongPeriod))>> ELSE <<>>)

\* Mutant: a schedule of exactly the ceiling already draws the warning.
ScheduleHoursCheckInclusive(entry, row) ==
    (IF entry.scheduleHours < 0
     THEN <<PushError(Err(row, "scheduleHours", MsgScheduleNeg))>> ELSE <<>>)
    \o
    (IF entry.scheduleHours >= ScheduleCeiling
     THEN <<PushWarning(Warn(row, "scheduleHours", MsgScheduleHigh))>> ELSE <<>>)

\* Schedule hours validation.
ScheduleHoursCheck(entry, row) ==
    (IF entry.scheduleHours < 0
     THEN <<PushError(Err(row, "scheduleHours", MsgScheduleNeg))>> ELSE <<>>)
    \o
    (IF entry.scheduleHours > ScheduleCeiling
     THEN <<PushWarning(Warn(row, "scheduleHours", MsgScheduleHigh))>> ELSE <<>>)

hourFields ==
    <<"reportedHours", "regularHours", "overtimeHours", "holidayHours",
      "leaveHours", "totalHours">>

\* hourFields.forEach(({field, value}) => { if (value < 0) errors.push(...) })
RECURSIVE NegativeFrom(_, _, _)
NegativeFrom(entry, row, k) ==
    IF k > Len(hourFields) THEN <<>>
    ELSE (IF entry[hourFields[k]] < 0
          THEN <<PushError(Err(row, hourFields[k], MsgNegative))>> ELSE <<>>)
         \o NegativeFrom(entry, row, k + 1)

\* Mutant: the first of the hour fields is left unchecked.
NegativeHoursSkipFirst(entry, row) == NegativeFrom(entry, row, 2)

NegativeHoursCheck(entry, row) == NegativeFrom(entry, row, 1)

\* The double 0.01.
Tolerance == Double(TotalTolerance)

\* The sum of the breakdown, added from left to right in doubles.
calculatedTotal(entry) ==
    DoubleAdd(DoubleAdd(DoubleAdd(Double(entry.regularHours),
                                  Double(entry.overtimeHours)),
                        Double(entry.holidayHours)),
              Double(entry.leaveHours))

\* entry.totalHours > 0 and Math.abs(totalHours - calculatedTotal) > 0.01
\* Mutant: the totals are compared whatever the total is.
TotalMismatchUngated(entry) ==
    DoubleGreater(DoubleAbs(DoubleSub(Double(entry.totalHours),
                                      calculatedTotal(entry))),
                  Tolerance)

TotalMismatch(entry) ==
    /\ entry.totalHours > 0
    /\ DoubleGreater(DoubleAbs(DoubleSub(Double(entry.totalHours),
                                         calculatedTotal(entry))),
                     Tolerance)

\* VALIDATION 1: Total Hours = Regular + Overtime + Holiday + Leave
TotalHoursCheck(entry, row) ==
    IF TotalMismatch(entry)
    THEN <<PushError(Err(row, "totalHours", MsgTotalMismatch))>>
    ELSE <<>>

\* Mutant: a timesheet awaiting approval counts as submitted too.
isSubmittedOrAwaiting(entry) ==
    entry.timesheetStatus \in
        {"Approved", "Partially Approved", "Partially Submitted", "Needs Approval"}

isSubmitted(entry) ==
    entry.timesheetStatus \in {"Approved", "Partially Approved", "Partially Submitted"}

\* Mutant: reported hours equal to the scheduled hours already draw the finding.
ReportedVsScheduleInclusive(entry, row) ==
    IF entry.reportedHours >= entry.scheduleHours
    THEN IF isSubmitted(entry)
         THEN <<PushWarning(Warn(row, "reportedHours", MsgExceedWarn))>>
         ELSE <<PushError(Err(row, "reportedHours", MsgExceedErr))>>
    ELSE <<>>

\* VALIDATION 2: Reported Hours <= Schedule Hours
ReportedVsSchedule(entry, row) ==
    IF entry.reportedHours > entry.scheduleHours
    THEN IF isSubmitted(entry)
         THEN <<PushWarning(Warn(row, "reportedHours", MsgExceedWarn))>>
         ELSE <<PushError(Err(row, "reportedHours", MsgExceedErr))>>
    ELSE <<>>

\* Mutant: any value other than zero counts as hours.
hasHoursNonzero(entry) ==
    \/ entry.reportedHours # 0
    \/ entry.regularHours # 0
    \/ entry.overtimeHours # 0
    \/ entry.holidayHours # 0
    \/ entry.leaveHours # 0

\* Mutant: only the breakdown counts as hours, not the reported hours.
hasHoursBreakdownOnly(entry) ==
    \/ entry.regularHours > 0
    \/ entry.overtimeHours > 0
    \/ entry.holidayHours > 0
    \/ entry.leaveHours > 0

hasHours(entry) ==
    \/ entry.reportedHours > 0
    \/ entry.regularHours > 0
    \/ entry.overtimeHours > 0
    \/ entry.holidayHours > 0
    \/ entry.leaveHours > 0

\* Mutant: an absence with any hours at all draws the warning.
StatusSpecificAbsenceAnyHours(entry, row) ==
    LET w(cond, message) ==
            IF cond THEN <<PushWarning(Warn(row, "timesheetStatus", message))>>
            ELSE <<>>
    IN  CASE entry.timesheetStatus \in {"Approved", "Partially Approved"} ->
                w(~hasHours(entry), MsgApprovedNoHours)
          [] entry.timesheetStatus = "Not Submitted" ->
                w(hasHours(entry), MsgNotSubmitted)
          [] entry.timesheetStatus = "Absence/Holiday" ->
                w(hasHours(entry), MsgAbsence)
          [] entry.timesheetStatus \in {"Needs Approval", "Partially Submitted"} ->
                w(~hasHours(entry), MsgSubmittedNoHours)
          [] OTHER -> <<>>

\* VALIDATION 3: Status-specific validations (switch on the status)
StatusSpecific(entry, row) ==
    LET w(cond, message) ==
            IF cond THEN <<PushWarning(Warn(row, "timesheetStatus", message))>>
            ELSE <<>>
    IN  CASE entry.timesheetStatus \in {"Approved", "Partially Approved"} ->
                w(~hasHours(entry), MsgApprovedNoHours)
          [] entry.timesheetStatus = "Not Submitted" ->
                w(hasHours(entry), MsgNotSubmitted)
          [] entry.timesheetStatus = "Absence/Holiday" ->
                w(entry.regularHours > 0 \/ entry.overtimeHours > 0, MsgAbsence)
          [] entry.timesheetStatus \in {"Needs Approval", "Partially Submitted"} ->
                w(~hasHours(entry), MsgSubmittedNoHours)
          [] OTHER -> <<>>

\* Mutant: the future-start finding is pushed onto the errors.
FutureStartAsError(startDate, currentDate, row) ==
    IF startDate.time > TimeOf(currentDate)
    THEN <<PushError(Err(row, "startDate", MsgFutureStart))>>
    ELSE <<>>

\* if (startDate > currentDate) warnings.push(...)
FutureStartCheck(startDate, currentDate, row) ==
    IF startDate.time > TimeOf(currentDate)
    THEN <<PushWarning(Warn(row, "startDate", MsgFutureStart))>>
    ELSE <<>>

\* if (endDate < yearAgo) warnings.push(...)
StaleEndCheck(endDate, yearAgo, row) ==
    IF endDate.time < yearAgo
    THEN <<PushWarning(Warn(row, "endDate", MsgStaleEnd))>>
    ELSE <<>>

\* VALIDATION 4: Additional date range validations. reads = <<c1, c2>>, the
\* two readings of the clock: currentDate = new Date(), yearAgo = new Date().
DateRangeExtra(entry, row, reads) ==
    IF ~BothDatesPresent(entry) THEN <<>>
    ELSE LET startDate == NewDate(entry.startDate)
             endDate   == NewDate(entry.endDate)
         IN  IF ~IsNaNTime(startDate) /\ ~IsNaNTime(endDate)
             THEN FutureStartCheck(startDate, reads[1], row)
                  \o StaleEndCheck(endDate, YearAgo(reads[1], reads[2]), row)
             ELSE <<>>

\* Mutant: reported hours of any sign count as reported.
ConsistencyChecksNonzero(entry, row) ==
    (IF entry.reportedHours # 0 /\ IsZero(calculatedTotal(entry))
     THEN <<PushWarning(Warn(row, "reportedHours", MsgNoBreakdown))>> ELSE <<>>)
    \o
    (IF entry.reportedHours = 0 /\ DoubleGreater(calculatedTotal(entry), Zero)
     THEN <<PushWarning(Warn(row, "reportedHours", MsgNoReported))>> ELSE <<>>)

\* Additional consistency checks.
ConsistencyChecks(entry, row) ==
    (IF entry.reportedHours > 0 /\ IsZero(calculatedTotal(entry))
     THEN <<PushWarning(Warn(row, "reportedHours", MsgNoBreakdown))>> ELSE <<>>)
    \o
    (IF entry.reportedHours = 0 /\ DoubleGreater(calculatedTotal(entry), Zero)
     THEN <<PushWarning(Warn(row, "reportedHours", MsgNoReported))>> ELSE <<>>)

\* Mutant: the status is trimmed before it is tested, a method call that
\* throws on a missing status.
EntryThrowsOnMissingStatus(entry) == entry.timesheetStatus = Undefined

\* The operations of the callback that can throw: the only method call on a
\* computed value is calculatedTotal.toFixed(2), in the total-mismatch message.
EntryThrows(entry) ==
    TotalMismatch(entry) /\ ToFixedThrows(calculatedTotal(entry))

\* Mutant: a blank status is filled down from the record above.
EntryAtFillDown(es, i) ==
    IF i > 1 /\ Falsy(es[i].timesheetStatus)
    THEN [es[i] EXCEPT !.timesheetStatus = es[i - 1].timesheetStatus]
    ELSE es[i]

\* The record the forEach callback is handed at 1-based position i.
EntryAt(es, i) == es[i]

\* Mutant: a record that fails a required-field check is not checked further.
ValidateEntryShortCircuit(entry, index, reads) ==
    LET row == RowOf(index)
        required ==
            RequiredCheck(entry.employeeId, row, "employeeId", MsgIdRequired)
            \o RequiredCheck(entry.startDate, row, "startDate", MsgStartRequired)
            \o RequiredCheck(entry.endDate, row, "endDate", MsgEndRequired)
            \o StatusCheck(entry, row)
    IN  IF \E i \in DOMAIN required : OntoErrors(required[i])
        THEN required
        ELSE required
             \o DateFormatRange(entry, row)
             \o ScheduleHoursCheck(entry, row)
             \o NegativeHoursCheck(entry, row)
             \o TotalHoursCheck(entry, row)
             \o ReportedVsSchedule(entry, row)
             \o StatusSpecific(entry, row)
             \o DateRangeExtra(entry, row, reads)
             \o ConsistencyChecks(entry, row)

\* The body of entries.forEach((entry, index) => {...}).
ValidateEntry(entry, index, reads) ==
    LET row == RowOf(index)
    IN  RequiredCheck(entry.employeeId, row, "employeeId", MsgIdRequired)
        \o RequiredCheck(entry.startDate, row, "startDate", MsgStartRequired)
        \o RequiredCheck(entry.endDate, row, "endDate", MsgEndRequired)
        \o StatusCheck(entry, row)
        \o DateFormatRange(entry, row)
        \o ScheduleHoursCheck(entry, row)
        \o NegativeHoursCheck(entry, row)
        \o TotalHoursCheck(entry, row)
        \o ReportedVsSchedule(entry, row)
        \o StatusSpecific(entry, row)
        \o DateRangeExtra(entry, row, reads)
        \o ConsistencyChecks(entry, row)

RECURSIVE ForEach(_, _, _)
ForEach(es, reads, n) ==
    IF n = 0 THEN <<>>
    ELSE ForEach(es, reads, n - 1)
         \o ValidateEntry(EntryAt(es, n), n - 1, reads[n])

\* Mutant: a batch counts as valid only without any finding at all.
IsValidNoFindings(errors, warnings) == Len(errors) = 0 /\ Len(warnings) = 0

\* isValid: errors.length === 0
IsValid(errors, warnings) == Len(errors) = 0

Threw == [kind |-> "threw"]

NoResult == [kind |-> "null"]

Result(errors, warnings) ==
    [kind     |-> "result",
     isValid  |-> IsValid(errors, warnings),
     errors   |-> errors,
     warnings |-> warnings]

\* validateTimesheet(entries), with reads[i] the two clock readings taken
\* while record i is checked. An exception leaves the call without a result.
validateTimesheet(es, reads) ==
    IF \E i \in 1..Len(es) : EntryThrows(EntryAt(es, i)) THEN Threw
    ELSE LET pushes == ForEach(es, reads, Len(es))
         IN  Result(FindingsOf(SelectSeq(pushes, OntoErrors)),
                    FindingsOf(SelectSeq(pushes, OntoWarnings)))

(***************************************************************************)
(* Inputs: the record sequences the validator is applied to.               *)
(***************************************************************************)
\* A record with no finding at either clock instant.
BaseEntry ==
    [employeeId      |-> "E1",
     startDate       |-> "2025-01-06",
     endDate         |-> "2025-01-13",
     timesheetStatus |-> "Approved",
     scheduleHours   |-> 4000,
     reportedHours   |-> 4000,
     regularHours    |-> 4000,
     overtimeHours   |-> 0,
     holidayHours    |-> 0,
     leaveHours      |-> 0,
     totalHours      |-> 4000]

SeqsUpTo(S, n) == UNION {[1..k -> S] : k \in 0..n}

\* Records with errors only, warnings only, both, none, and with warnings
\* that depend on the clock.
CoreRecords ==
    { BaseEntry,
      [BaseEntry EXCEPT !.employeeId = ""],
      [BaseEntry EXCEPT !.timesheetStatus = "Pending"],
      [BaseEntry EXCEPT !.startDate = "2025-02-15", !.endDate = "2025-02-22"],
      [BaseEntry EXCEPT !.startDate = "2024-02-08", !.endDate = "2024-02-15"],
      [BaseEntry EXCEPT !.employeeId = Undefined, !.startDate = Undefined,
                        !.endDate = Undefined, !.timesheetStatus = Undefined,
                        !.scheduleHours = 0, !.reportedHours = -100,
                        !.regularHours = 0, !.totalHours = 0] }

requiredFields == <<"employeeId", "startDate", "endDate", "timesheetStatus">>

\* Each required field missing, empty or filled in, in every combination;
\* a filled-in end date that does not parse; and every status, known or not.
RequiredRecords ==
    { [BaseEntry EXCEPT !.employeeId = id, !.startDate = sd,
                        !.endDate = ed, !.timesheetStatus = st] :
         id \in {Undefined, "", "E1"},
         sd \in {Undefined, "", "2025-01-06"},
         ed \in {Undefined, "", "2025-01-13"},
         st \in {Undefined, "", "Approved"} }
    \cup { [BaseEntry EXCEPT !.endDate = "not-a-date"] }
    \cup { [BaseEntry EXCEPT !.timesheetStatus = st] :
              st \in validStatuses \cup {"Pending", "approved"} }

StartStrings ==
    {Undefined, "", "not-a-date", "2025-01-06", "2025-01-20", "2025-02-15"}

EndStrings ==
    {Undefined, "", "not-a-date", "2023-06-01", "2025-01-06", "2025-01-13",
     "2025-01-20", "2025-01-20T01:00Z", "2025-01-21"}

DateRecords ==
    { [BaseEntry EXCEPT !.startDate = sd, !.endDate = ed] :
         sd \in StartStrings, ed \in EndStrings }

\* Start dates before, at and after clock instants; end dates more than
\* two years back, between one and two years back, around one year back,
\* and recent; and a date that does not parse.
ClockStartStrings == {"not-a-date", "2024-12-25", "2025-01-01", "2025-02-15"}

ClockEndStrings ==
    {"not-a-date", "2022-06-01", "2023-06-01", "2023-12-31", "2024-01-01",
     "2024-02-15", "2025-01-13"}

ClockRecords ==
    { [BaseEntry EXCEPT !.startDate = sd, !.endDate = ed] :
         sd \in ClockStartStrings, ed \in ClockEndStrings }

\* Scheduled hours below, at and above the two thresholds (0 and 80 hours).
ScheduleValues == {-100, -1, 0, 4000, 7999, 8000, 8001, 12000}

ScheduleRecords == { [BaseEntry EXCEPT !.scheduleHours = s] : s \in ScheduleValues }

\* Each of the six hour fields negative or not, in every combination.
SignValues == {-50, 800}

SignRecords ==
    { [BaseEntry EXCEPT !.reportedHours = rep, !.regularHours = reg,
                        !.overtimeHours = ot, !.holidayHours = hol,
                        !.leaveHours = lv, !.totalHours = tot] :
         rep \in SignValues, reg \in SignValues, ot \in SignValues,
         hol \in SignValues, lv \in SignValues, tot \in SignValues }

\* Every status, known, unknown, empty or missing.
StatusValues == validStatuses \cup {"Pending", "", Undefined}

\* Reported hours above, at and below the scheduled hours.
ReportedSchedulePairs == {<<5000, 4000>>, <<4001, 4000>>, <<4000, 4000>>, <<3000, 4000>>}

ExceedRecords ==
    { [BaseEntry EXCEPT !.timesheetStatus = st, !.reportedHours = p[1],
                        !.scheduleHours = p[2]] :
         st \in StatusValues, p \in ReportedSchedulePairs }

\* The five hour fields the status rules look at: all zero, one of them
\* positive, one of them negative, and mixtures.
ZeroHours ==
    [BaseEntry EXCEPT !.reportedHours = 0, !.regularHours = 0, !.overtimeHours = 0,
                      !.holidayHours = 0, !.leaveHours = 0, !.totalHours = 0]

statusFields ==
    {"reportedHours", "regularHours", "overtimeHours", "holidayHours", "leaveHours"}

HourPatterns ==
    {ZeroHours}
    \cup { [ZeroHours EXCEPT ![fld] = v] : fld \in statusFields, v \in {-50, 800} }
    \cup { [ZeroHours EXCEPT !.reportedHours = 800, !.holidayHours = 800],
           [ZeroHours EXCEPT !.reportedHours = -50, !.leaveHours = 800] }

StatusRecords ==
    { [h EXCEPT !.timesheetStatus = st] :
         h \in HourPatterns, st \in validStatuses \cup {"Pending"} }

\* The breakdown of a record: regular, overtime, holiday and leave hours.
WithBreakdown(e, b) ==
    [e EXCEPT !.regularHours = b[1], !.overtimeHours = b[2],
              !.holidayHours = b[3], !.leaveHours = b[4]]

\* Totals below, at and above a breakdown of 1 hour and one of 40 hours, by
\* one and by two hundredths; a zero and a negative total.
TotalValues == {-100, 0, 98, 99, 100, 101, 102, 3998, 3999, 4000, 4001, 4002}

\* Breakdowns of 1 hour and of 40 hours in one field, of 40 hours and of
\* 1 hour over several fields, and an empty one.
TotalBreakdowns ==
    { <<100, 0, 0, 0>>, <<4000, 0, 0, 0>>, <<3000, 500, 250, 250>>,
      <<10, 20, 70, 0>>, <<0, 0, 0, 0>> }

TotalRecords ==
    { WithBreakdown([BaseEntry EXCEPT !.totalHours = tot], b) :
         tot \in TotalValues, b \in TotalBreakdowns }

\* Reported hours zero, positive and negative, against breakdowns that are
\* empty, positive, negative, and that cancel (exactly, and up to rounding).
ReportedValues == {-50, 0, 800}

ReportedBreakdowns ==
    { <<0, 0, 0, 0>>, <<800, 0, 0, 0>>, <<0, 0, 0, 800>>, <<-50, 0, 0, 0>>,
      <<50, -50, 0, 0>>, <<10, 20, -30, 0>>, <<400, 0, 400, 0>> }

BreakdownRecords ==
    { WithBreakdown([BaseEntry EXCEPT !.reportedHours = rep, !.totalHours = 0], b) :
         rep \in ReportedValues, b \in ReportedBreakdowns }

\* The date pairs of the scenarios: end before start, end equal to start,
\* end a week after start, and a start that does not parse.
ScenarioDates ==
    { <<"2025-01-13", "2025-01-06">>, <<"2025-01-20", "2025-01-06">>,
      <<"2025-01-06", "2025-01-06">>, <<"2025-01-06", "2025-01-13">>,
      <<"not-a-date", "2025-01-06">> }

\* Scenario A with the employee id present, empty or missing and each pair
\* of dates; and scenario A with either status, reported hours of 0 or 8,
\* and a regular and scheduled part below, at and above them.
ScenarioRecords ==
    { [BaseEntry EXCEPT !.employeeId = id, !.startDate = d[1], !.endDate = d[2]] :
         id \in {Undefined, "", "E1"}, d \in ScenarioDates }
    \cup
    { [BaseEntry EXCEPT !.timesheetStatus = st, !.reportedHours = rep,
                        !.regularHours = reg, !.totalHours = reg,
                        !.scheduleHours = sch] :
         st \in {"Approved", "Not Submitted"}, rep \in {0, 800},
         reg \in {-800, 0, 800, 4000}, sch \in {0, 800, 12000} }

HourRecords == ScheduleRecords \cup SignRecords

(***************************************************************************)
(* Text. A text (the content of a file, a cell, a header) is the sequence  *)
(* of its characters; a run of characters that no operation of the program *)
(* takes apart (a word, a date) is kept as one element. A string field of  *)
(* a record is the string its characters spell.                            *)
(***************************************************************************)
\* The characters of a string; 'Doe, J' is the one string of the model
\* that is more than one element of text.
Chars(s) ==
    IF s = "Doe, J" THEN <<"Doe", ",", " ", "J">>
    ELSE IF s = "" THEN <<>> ELSE <<s>>

\* The string that a text spells.
Spell(text) ==
    CASE Len(text) = 0 -> ""
      [] Len(text) = 1 -> text[1]
      [] text = <<"Doe", ",", " ", "J">> -> "Doe, J"

\* A value that is not there (undefined), where a text is expected.
NoValue == <<Undefined>>

\* String.prototype.trim
Trim(s) ==
    LET IsWhiteSpace(c) == c \in {" ", "\n"}
        RECURSIVE TrimStart(_)
        TrimStart(u) ==
            IF u # <<>> /\ IsWhiteSpace(Head(u)) THEN TrimStart(Tail(u)) ELSE u
        RECURSIVE TrimEnd(_)
        TrimEnd(u) ==
            IF u # <<>> /\ IsWhiteSpace(u[Len(u)])
            THEN TrimEnd(SubSeq(u, 1, Len(u) - 1)) ELSE u
    IN  TrimEnd(TrimStart(s))

\* parseFloat(value), a number (the integer of its hundredths) or NaN:
\* leading white space is skipped, then the longest prefix that is a decimal
\* literal is read; whatever follows is ignored. A fraction finer than
\* hundredths is outside the model.
parseFloat(value) ==
    LET Digits == <<"0", "1", "2", "3", "4", "5", "6", "7", "8", "9">>
        DigitValue(c) == (CHOOSE d \in DOMAIN Digits : Digits[d] = c) - 1
        RECURSIVE DigitPrefix(_)
        DigitPrefix(u) ==
            IF u # <<>> /\ (\E d \in DOMAIN Digits : Digits[d] = Head(u))
            THEN <<Head(u)>> \o DigitPrefix(Tail(u)) ELSE <<>>
        RECURSIVE DecimalValue(_)
        DecimalValue(ds) ==
            IF ds = <<>> THEN 0
            ELSE 10 * DecimalValue(SubSeq(ds, 1, Len(ds) - 1)) + DigitValue(ds[Len(ds)])
        Hundredths(frac) ==
            CASE Len(frac) = 0 -> 0
              [] Len(frac) = 1 -> 10 * DigitValue(frac[1])
              [] Len(frac) >= 2 /\ (\A i \in 3..Len(frac) : frac[i] = "0") ->
                    10 * DigitValue(frac[1]) + DigitValue(frac[2])
        RECURSIVE SkipWhiteSpace(_)
        SkipWhiteSpace(u) ==
            IF u # <<>> /\ Head(u) \in {" ", "\n"} THEN SkipWhiteSpace(Tail(u)) ELSE u
        s      == IF value = NoValue THEN <<>> ELSE SkipWhiteSpace(value)
        signed == s # <<>> /\ Head(s) \in {"-", "+"}
        body   == IF signed THEN Tail(s) ELSE s
        whole  == DigitPrefix(body)
        after  == SubSeq(body, Len(whole) + 1, Len(body))
        frac   == IF after # <<>> /\ Head(after) = "."
                  THEN DigitPrefix(Tail(after)) ELSE <<>>
        magnitude == 100 * DecimalValue(whole) + Hundredths(frac)
    IN  IF whole = <<>> /\ frac = <<>> THEN [nan |-> TRUE, value |-> 0]
        ELSE [nan |-> FALSE,
              value |-> IF signed /\ Head(s) = "-" THEN -magnitude ELSE magnitude]

\* String(n), as Array.prototype.join and a template literal render a
\* number: the shortest decimal that reads back as the same number.
NumberToString(n) ==
    LET Digits == <<"0", "1", "2", "3", "4", "5", "6", "7", "8", "9">>
        RECURSIVE DigitsOf(_)
        DigitsOf(k) ==
            IF k < 10 THEN <<Digits[k + 1]>>
            ELSE DigitsOf(k \div 10) \o <<Digits[(k % 10) + 1]>>
        m     == Abs(n)
        cents == m % 100
    IN  (IF n < 0 THEN <<"-">> ELSE <<>>)
        \o DigitsOf(m \div 100)
        \o (IF cents = 0 THEN <<>>
            ELSE IF cents % 10 = 0 THEN <<".", Digits[(cents \div 10) + 1]>>
            ELSE <<".", Digits[(cents \div 10) + 1], Digits[(cents % 10) + 1]>>)

(***************************************************************************)
(* parseCSV (src/unnamed/part_000): Papa.parse with header: true and       *)
(* skipEmptyLines: true, then the conversion of the hour fields. A file is *)
(* [readable |-> TRUE, text |-> its text], or cannot be read.              *)
(***************************************************************************)
\* The rows of cells of a text and the quoting errors met on the way. The
\* reader is at the start of a cell, inside a plain cell, inside a quoted
\* cell, or after the quote that may close it (parseCSV never aborts it).
\* A quote opens a cell only at its start; inside a quoted cell two quotes
\* are one quote; after the closing quote only spaces, a delimiter or a
\* line end may follow. The end of the text ends the last row.
Tokenize(text) ==
    LET EndCell(st) ==
            [st EXCEPT !.row = Append(@, st.cell), !.cell = <<>>, !.mode = "start"]
        EndRow(st) ==
            [EndCell(st) EXCEPT !.rows = Append(@, Append(st.row, st.cell)), !.row = <<>>]
        ScanStep(st, c) ==
            CASE st.mode = "start" ->
                    IF c = "\"" THEN [st EXCEPT !.mode = "quoted"]
                    ELSE IF c = "," THEN EndCell(st)
                    ELSE IF c = "\n" THEN EndRow(st)
                    ELSE [st EXCEPT !.cell = <<c>>, !.mode = "plain"]
              [] st.mode = "plain" ->
                    IF c = "," THEN EndCell(st)
                    ELSE IF c = "\n" THEN EndRow(st)
                    ELSE [st EXCEPT !.cell = Append(@, c)]
              [] st.mode = "quoted" ->
                    IF c = "\"" THEN [st EXCEPT !.mode = "closed"]
                    ELSE [st EXCEPT !.cell = Append(@, c)]
              [] st.mode = "closed" ->
                    IF c = "\"" THEN [st EXCEPT !.cell = Append(@, c), !.mode = "quoted"]
                    ELSE IF c = "," THEN EndCell(st)
                    ELSE IF c = "\n" THEN EndRow(st)
                    ELSE IF c = " " THEN st
                    ELSE [st EXCEPT !.cell = Append(@, c), !.mode = "quoted",
                                    !.errors = Append(@, "InvalidQuotes")]
        RECURSIVE Scan(_, _)
        Scan(i, st) ==
            IF i > Len(text) \/ st.mode = "aborted" THEN st
            ELSE Scan(i + 1, ScanStep(st, text[i]))
        last == Scan(1, [mode |-> "start", cell |-> <<>>, row |-> <<>>,
                         rows |-> <<>>, errors |-> <<>>])
    IN  EndRow(IF last.mode = "quoted"
               THEN [last EXCEPT !.errors = Append(@, "MissingQuotes")] ELSE last)

\* transformHeader: headerMap[header.toLowerCase().trim()] || header, with
\* toLowerCase on the words that the headers of the model are written in.
transformHeader(header) ==
    LET LowerCaseOf(w) ==
            CASE w = "Employee ID"      -> "employee id"
              [] w = "Start Date"       -> "start date"
              [] w = "End Date"         -> "end date"
              [] w = "Timesheet Status" -> "timesheet status"
              [] w = "Schedule Hours"   -> "schedule hours"
              [] w = "Reported Hours"   -> "reported hours"
              [] w = "Regular Hours"    -> "regular hours"
              [] w = "Overtime Hours"   -> "overtime hours"
              [] w = "Holiday Hours"    -> "holiday hours"
              [] w = "Leave Hours"      -> "leave hours"
              [] w = "Total Hours"      -> "total hours"
              [] w = "ID"               -> "id"
              [] w = "Status"           -> "status"
              [] OTHER                  -> w
        headerMap(h) ==
            CASE h \in {"empl id", "employee id", "employee_id", "id"} -> "employeeId"
              [] h \in {"start date", "start_date", "startdate"} -> "startDate"
              [] h \in {"end date", "end_date", "enddate"} -> "endDate"
              [] h \in {"timesheet status", "timesheet_status", "status"} ->
                    "timesheetStatus"
              [] h \in {"schedule hours", "schedule_hours", "scheduled hours",
                        "scheduled_hours"} -> "scheduleHours"
              [] h \in {"reported hours", "reported_hours"} -> "reportedHours"
              [] h \in {"regular hours", "regular_hours"} -> "regularHours"
              [] h \in {"overtime hours", "overtime_hours"} -> "overtimeHours"
              [] h \in {"holiday hours", "holiday_hours"} -> "holidayHours"
              [] h \in {"leave hours", "leave_hours"} -> "leaveHours"
              [] h \in {"total hours", "total_hours"} -> "totalHours"
              [] OTHER -> Undefined
        normalizedHeader == Spell(Trim([i \in DOMAIN header |-> LowerCaseOf(header[i])]))
    IN  IF headerMap(normalizedHeader) # Undefined
        THEN headerMap(normalizedHeader) ELSE Spell(header)

numericFields ==
    {"scheduleHours", "reportedHours", "regularHours", "overtimeHours",
     "holidayHours", "leaveHours", "totalHours"}

\* transform: a blank or unreadable value of an hour field becomes '0';
\* every other value is trimmed.
transform(value, field) ==
    IF field \in numericFields
    THEN IF value = <<>> \/ Trim(value) = <<>> THEN <<"0">>
         ELSE IF parseFloat(value).nan THEN <<"0">> ELSE Trim(value)
    ELSE Trim(value)

\* Papa.parse(file, {header: true, skipEmptyLines: true, ...}): result.errors
\* and result.data. skipEmptyLines drops a row that is one empty cell. No
\* delimiter is given: the reader settles on the comma when the lines hold
\* two cells or more on average (other delimiters are not part of the texts
\* of the model) and reports an error otherwise. The first row gives the
\* fields; every other row becomes an object, each cell under its field,
\* transformed, a field without a column being absent; a row with more or
\* fewer cells than fields is an error.
PapaParse(text) ==
    LET tokens == Tokenize(text)
        rows   == SelectSeq(tokens.rows, LAMBDA row : ~(Len(row) = 1 /\ Len(row[1]) = 0))
        RECURSIVE SumOfLengths(_)
        SumOfLengths(rs) ==
            IF rs = <<>> THEN 0 ELSE Len(Head(rs)) + SumOfLengths(Tail(rs))
        fields == IF rows = <<>> THEN <<>>
                  ELSE [j \in DOMAIN rows[1] |-> transformHeader(rows[1][j])]
        data   == IF rows = <<>> THEN <<>> ELSE Tail(rows)
        RowObject(row) ==
            [f \in {"employeeId", "startDate", "endDate", "timesheetStatus"}
                   \cup numericFields |->
                LET columns == {j \in DOMAIN fields : j <= Len(row) /\ fields[j] = f}
                IN  IF columns = {} THEN NoValue
                    ELSE transform(row[CHOOSE j \in columns : \A k \in columns : k <= j], f)]
        RECURSIVE FieldMismatches(_)
        FieldMismatches(rs) ==
            IF rs = <<>> THEN <<>>
            ELSE (IF Len(Head(rs)) < Len(fields) THEN <<"TooFewFields">>
                  ELSE IF Len(Head(rs)) > Len(fields) THEN <<"TooManyFields">>
                  ELSE <<>>)
                 \o FieldMismatches(Tail(rs))
    IN  [errors |-> tokens.errors
                    \o (IF 100 * SumOfLengths(rows) <= 199 * Len(rows)
                        THEN <<"UndetectableDelimiter">> ELSE <<>>)
                    \o FieldMismatches(data),
         data   |-> [i \in DOMAIN data |-> RowObject(data[i])]]

\* Post-processing: each hour field becomes parseFloat(x) || 0, the other
\* fields stay as they are.
processedData(result) ==
    LET NumberOrZero(value) ==
            IF parseFloat(value).nan THEN 0 ELSE parseFloat(value).value
    IN  [i \in DOMAIN result.data |->
            [f \in DOMAIN result.data[i] |->
                IF f \in numericFields THEN NumberOrZero(result.data[i][f])
                ELSE IF result.data[i][f] = NoValue THEN Undefined
                ELSE Spell(result.data[i][f])]]

\* Mutant: the rows that were read are handed over despite the errors.
completeLenient(result) == <<[kind |-> "resolved", data |-> processedData(result)]>>

\* The complete callback: the calls it makes to reject and resolve, in order.
complete(result) ==
    IF Len(result.errors) > 0
    THEN <<[kind |-> "rejected", message |-> <<"CSV parsing error", result.errors[1]>>]>>
    ELSE <<[kind |-> "resolved", data |-> processedData(result)]>>

\* The calls that settle the promise of parseCSV(file): those of the error
\* callback for a file that cannot be read, of complete otherwise.
SettleCalls(file) ==
    IF ~file.readable THEN <<[kind |-> "rejected", message |-> <<"NotReadableError">>]>>
    ELSE complete(PapaParse(file.text))

\* parseCSV(file): how its promise settles, which is by the first call.
parseCSV(file) == SettleCalls(file)[1]

(***************************************************************************)
(* TimesheetTable (src/src/components/TimesheetTable.tsx): the sorted view *)
(* of the records it is handed, the highlighting of its rows and the CSV   *)
(* export.                                                                 *)
(***************************************************************************)
\* The comparator handed to sort. aValue < bValue compares numbers by value
\* and strings by their UTF-16 code units (the strings of the model are
\* listed in that order); a comparison with undefined is false.
Compare(a, b, field, direction) ==
    LET CodeUnitOrder ==
            << "", "2022-06-01", "2023-06-01", "2023-12-31", "2024-01-01",
               "2024-02-08", "2024-02-15", "2024-12-25", "2025-01-01",
               "2025-01-06", "2025-01-13", "2025-01-20", "2025-01-20T01:00Z",
               "2025-01-21", "2025-02-15", "2025-02-22", "Absence/Holiday",
               "Approved", "Doe, J", "E1", "E2", "Needs Approval", "Not Submitted",
               "Partially Approved", "Partially Submitted", "Pending", "approved",
               "not-a-date", "undefined" >>
        Rank(s) == CHOOSE i \in DOMAIN CodeUnitOrder : CodeUnitOrder[i] = s
        LessThan(aValue, bValue) ==
            IF field \in numericFields THEN aValue < bValue
            ELSE /\ aValue # Undefined /\ bValue # Undefined
                 /\ Rank(aValue) < Rank(bValue)
    IN  IF LessThan(a[field], b[field])
        THEN (IF direction = "asc" THEN -1 ELSE 1)
        ELSE IF LessThan(b[field], a[field])
             THEN (IF direction = "asc" THEN 1 ELSE -1)
             ELSE 0

\* const sortedEntries = [...entries].sort(compare). The sort is stable:
\* each position of es is placed behind the last position already placed
\* that does not compare greater.
sortedEntries(es, field, direction) ==
    LET Insert(order, i) ==
            LET notGreater == {k \in DOMAIN order :
                                  Compare(es[order[k]], es[i], field, direction) <= 0}
                after == IF notGreater = {} THEN 0
                         ELSE CHOOSE k \in notGreater : \A m \in notGreater : m <= k
            IN  SubSeq(order, 1, after) \o <<i>> \o SubSeq(order, after + 1, Len(order))
        RECURSIVE SortOrder(_)
        SortOrder(n) == IF n = 0 THEN <<>> ELSE Insert(SortOrder(n - 1), n)
    IN  [i \in DOMAIN es |-> es[SortOrder(Len(es))[i]]]

\* hasIssues of the row rendered at the 0-based index: getRowErrors(index)
\* or getRowWarnings(index) is not empty.
hasIssues(errors, warnings, index) ==
    \/ Len(SelectSeq(errors, LAMBDA f : f.row = index + 1)) > 0
    \/ Len(SelectSeq(warnings, LAMBDA f : f.row = index + 1)) > 0

\* csvContent, as exportToCSV builds it from the sorted view: the header line and one
\* line per record, the fields in the fixed order joined by commas, the
\* status in double quotes, nothing escaped. join renders an undefined item
\* as nothing; the template literal renders it as 'undefined'.
csvContent(sorted) ==
    LET RECURSIVE Join(_, _)
        Join(items, separator) ==
            IF items = <<>> THEN <<>>
            ELSE IF Len(items) = 1 THEN items[1]
            ELSE items[1] \o <<separator>> \o Join(Tail(items), separator)
        Joined(v) == IF v = Undefined THEN <<>> ELSE Chars(v)
        headers ==
            << <<"Employee ID">>, <<"Start Date">>, <<"End Date">>,
               <<"Timesheet Status">>, <<"Schedule Hours">>, <<"Reported Hours">>,
               <<"Regular Hours">>, <<"Overtime Hours">>, <<"Holiday Hours">>,
               <<"Leave Hours">>, <<"Total Hours">> >>
        Row(entry) ==
            Join(<< Joined(entry.employeeId),
                    Joined(entry.startDate),
                    Joined(entry.endDate),
                    <<"\"">>
                    \o (IF entry.timesheetStatus = Undefined THEN <<"undefined">>
                        ELSE Chars(entry.timesheetStatus))
                    \o <<"\"">>,
                    NumberToString(entry.scheduleHours),
                    NumberToString(entry.reportedHours),
                    NumberToString(entry.regularHours),
                    NumberToString(entry.overtimeHours),
                    NumberToString(entry.holidayHours),
                    NumberToString(entry.leaveHours),
                    NumberToString(entry.totalHours) >>, ",")
    IN  Join(<<Join(headers, ",")>> \o [i \in DOMAIN sorted |-> Row(sorted[i])], "\n")

(***************************************************************************)
(* Inputs of parseCSV: the files it is handed.                             *)
(***************************************************************************)
\* Raw cells of an hour column: blank, numbers, text, and numbers with
\* something before or after them.
RawValues ==
    { <<>>, <<" ">>, <<"8">>, <<"0">>, <<"-", "8">>, <<"8", ".", "5">>,
      <<".", "5">>, <<"0", "8", ".", "5", "0">>, <<" ", "8", " ">>,
      <<"abc">>, <<"-">>, <<"abc", "8">>, <<"8", "abc">>, <<"8", " ", "abc">>,
      <<"1", ",", "5">>, <<"8", ".", "5", ".", "5">> }

\* A file with an id, a status and the two hour columns given; a column
\* whose value is NoValue is not in the file. The cells are quoted.
HourFile(total, regular) ==
    LET column(name, raw) == IF raw = NoValue THEN <<>> ELSE <<",", name>>
        cell(raw) == IF raw = NoValue THEN <<>> ELSE <<",", "\"">> \o raw \o <<"\"">>
    IN  [readable |-> TRUE,
         text |-> <<"Employee ID", ",", "Status">>
                  \o column("Total Hours", total) \o column("Regular Hours", regular)
                  \o <<"\n", "E1", ",", "Approved">>
                  \o cell(total) \o cell(regular)]

(***************************************************************************)
(* The state machine: a caller holds `entries` and calls validateTimesheet *)
(* on it, any number of times, while the wall clock `now` moves on.        *)
(*   validation  the result of the last call (NoResult before the first)   *)
(*   previous    the result of the call before it                          *)
(*   clk         the clock readings of the last call, two per record       *)
(***************************************************************************)
\* The useState initial values of App and of TimesheetTable; no upload is
\* in flight and no file has been handed to parseCSV on its own. null is
\* NoResult wherever the state holds a value or null.
Mounted ==
    /\ filteredEntries = <<>>
    /\ isProcessing = FALSE
    /\ error = NoResult
    /\ hasProcessed = FALSE
    /\ activeTab = "overview"
    /\ uploads = <<>>
    /\ sortField = "startDate"
    /\ sortDirection = "asc"
    /\ csvFile = NoResult
    /\ settled = NoResult

InitWith(pool, n, clocks) ==
    /\ entries \in SeqsUpTo(pool, n)
    /\ now \in clocks
    /\ validation = NoResult
    /\ previous = NoResult
    /\ clk = <<>>
    /\ Mounted

\* The clock never runs backwards: the sequences of k successive readings,
\* none before `from`.
RECURSIVE Successive(_, _)
Successive(from, k) ==
    IF k = 0 THEN {<<>>}
    ELSE UNION { { <<c>> \o rest : rest \in Successive(c, k - 1) } :
                    c \in {c \in ClockValues : ClockTime[from] <= ClockTime[c]} }

\* Two readings for each of n records.
Readings(from, n) ==
    { [i \in 1..n |-> <<s[2 * i - 1], s[2 * i]>>] : s \in Successive(from, 2 * n) }

LastReading(reads, from) ==
    IF Len(reads) = 0 THEN from ELSE reads[Len(reads)][2]

\* A call of validateTimesheet(entries).
Validate ==
    /\ \E reads \in Readings(now, Len(entries)) :
          /\ validation' = validateTimesheet(entries, reads)
          /\ clk' = reads
          /\ now' = LastReading(reads, now)
    /\ previous' = validation
    /\ UNCHANGED <<entries, filteredEntries, isProcessing, error, hasProcessed,
                   activeTab, uploads, sortField, sortDirection, csvFile, settled>>

\* Time passes between calls.
Tick ==
    /\ \E c \in ClockValues : ClockTime[c] > ClockTime[now] /\ now' = c
    /\ UNCHANGED <<entries, validation, previous, clk,
                   filteredEntries, isProcessing, error, hasProcessed, activeTab,
                   uploads, sortField, sortDirection, csvFile, settled>>

Next == Validate \/ Tick

Spec == InitWith(CoreRecords, MaxEntries, LateClocks) /\ [][Next]_vars

SpecRequired == InitWith(RequiredRecords, MaxRows, LateClocks) /\ [][Next]_vars

SpecDates == InitWith(DateRecords, MaxRows, LateClocks) /\ [][Next]_vars

SpecHours == InitWith(HourRecords, MaxRows, LateClocks) /\ [][Next]_vars

SpecExceed == InitWith(ExceedRecords, MaxRows, LateClocks) /\ [][Next]_vars

SpecStatus == InitWith(StatusRecords, MaxRows, LateClocks) /\ [][Next]_vars

SpecTotals == InitWith(TotalRecords, MaxRows, LateClocks) /\ [][Next]_vars

SpecBreakdown == InitWith(BreakdownRecords, MaxRows, LateClocks) /\ [][Next]_vars

\* A run that starts at any of the instants, the turn of the year included.
SpecClock == InitWith(ClockRecords, MaxRows, ClockValues) /\ [][Next]_vars

SpecScenario == InitWith(ScenarioRecords, MaxRows, LateClocks) /\ [][Next]_vars

(***************************************************************************)
(* parseCSV on its own: a file is handed to it and its promise settles.    *)
(***************************************************************************)
\* parseCSV(csvFile) settles.
ParseFile ==
    /\ csvFile # NoResult
    /\ settled = NoResult
    /\ settled' = parseCSV(csvFile)
    /\ UNCHANGED <<csvFile, entries, validation, previous, clk, now,
                   filteredEntries, isProcessing, error, hasProcessed, activeTab,
                   uploads, sortField, sortDirection>>

\* The files with the hour columns, each handed to parseCSV once.
SpecHourFiles ==
    /\ \E total, regular \in RawValues \cup {NoValue} :
          csvFile = HourFile(total, regular)
    /\ settled = NoResult
    /\ entries = <<>> /\ validation = NoResult /\ previous = NoResult /\ clk = <<>>
    /\ now = ClockLate
    /\ filteredEntries = <<>> /\ isProcessing = FALSE /\ error = NoResult
    /\ hasProcessed = FALSE /\ activeTab = "overview" /\ uploads = <<>>
    /\ sortField = "startDate" /\ sortDirection = "asc"
    /\ [][ParseFile]_vars

(***************************************************************************)
(* App (src/src/App.tsx) with FileUpload, AdvancedFilters and              *)
(* BulkOperations. The state updates that a handler makes before it        *)
(* returns or awaits are one step (React 18 batches them); an upload is in *)
(* flight from the call of handleFileSelect until parseCSV settles.        *)
(***************************************************************************)
\* Files to upload, by name: two records, the end date of the first growing
\* stale as the clock moves on and a status warning on the second; a row with a comma inside a cell that is
\* not quoted; no record at all; a file that cannot be read.
UploadFiles ==
    [ records |->
        [readable |-> TRUE,
         text |-> csvContent(<< [BaseEntry EXCEPT !.employeeId = "E2",
                                                   !.startDate = "2024-02-08",
                                                   !.endDate = "2024-02-15"],
                                 [BaseEntry EXCEPT !.timesheetStatus = "Not Submitted"] >>)],
      comma |->
        [readable |-> TRUE,
         text |-> csvContent(<< [BaseEntry EXCEPT !.employeeId = "Doe, J"] >>)],
      empty |-> [readable |-> TRUE, text |-> csvContent(<<>>)],
      unreadable |-> [readable |-> FALSE, text |-> <<>>] ]

\* await parseCSV(file), for each of the files.
parsedEntries == [name \in DOMAIN UploadFiles |-> parseCSV(UploadFiles[name])]

\* {entries.length > 0 && validation && (...)}: the tabs are rendered.
Dashboard == Len(entries) > 0 /\ validation # NoResult

\* handleFileSelect(file) up to its await: the upload is in flight.
handleFileSelect(file) ==
    /\ Len(uploads) < MaxUploads
    /\ isProcessing' = TRUE
    /\ error' = NoResult
    /\ uploads' = Append(uploads, file)
    /\ UNCHANGED <<entries, validation, previous, clk, now, filteredEntries,
                   hasProcessed, activeTab, sortField, sortDirection, csvFile, settled>>

\* A file is dropped on the upload area, which is rendered while there is
\* neither a record nor an error.
handleDrop(file) ==
    /\ Len(entries) = 0 /\ error = NoResult
    /\ handleFileSelect(file)

\* A file is chosen with the input of the upload area, which is disabled
\* while isProcessing.
handleFileChange(file) ==
    /\ Len(entries) = 0 /\ error = NoResult
    /\ ~isProcessing
    /\ handleFileSelect(file)

\* handleFileSelect from its await on, for the i-th upload in flight: the
\* try block when parseCSV resolves and validateTimesheet returns, the
\* catch block otherwise, and the finally block.
FileSelectSettles(i) ==
    LET Catch(message) ==
            /\ error' = [kind |-> "message", text |-> message]
            /\ entries' = <<>>
            /\ filteredEntries' = <<>>
            /\ validation' = NoResult
            /\ hasProcessed' = FALSE
            /\ UNCHANGED activeTab
    IN  /\ i \in DOMAIN uploads
        /\ uploads' = SubSeq(uploads, 1, i - 1) \o SubSeq(uploads, i + 1, Len(uploads))
        /\ isProcessing' = FALSE
        /\ \E outcome \in {parsedEntries[uploads[i]]} :
              IF outcome.kind = "resolved"
              THEN \E reads \in Readings(now, Len(outcome.data)) :
                      \E validationResult \in {validateTimesheet(outcome.data, reads)} :
                         /\ now' = LastReading(reads, now)
                         /\ clk' = reads
                         /\ IF validationResult.kind = "result"
                            THEN /\ entries' = outcome.data
                                 /\ filteredEntries' = outcome.data
                                 /\ validation' = validationResult
                                 /\ hasProcessed' = TRUE
                                 /\ activeTab' = "overview"
                                 /\ UNCHANGED error
                            ELSE Catch(<<"TypeError">>)
              ELSE /\ Catch(outcome.message)
                   /\ UNCHANGED <<now, clk>>
        /\ UNCHANGED <<previous, sortField, sortDirection, csvFile, settled>>

\* resetApp, the button of the error banner and of the dashboard.
resetApp ==
    /\ error # NoResult \/ Dashboard
    /\ entries' = <<>>
    /\ filteredEntries' = <<>>
    /\ validation' = NoResult
    /\ error' = NoResult
    /\ hasProcessed' = FALSE
    /\ activeTab' = "overview"
    /\ UNCHANGED <<previous, clk, now, isProcessing, uploads,
                   sortField, sortDirection, csvFile, settled>>

\* setActiveTab(tab.id), a click on a tab of the dashboard.
setActiveTab(tab) ==
    /\ Dashboard
    /\ activeTab' = tab
    /\ UNCHANGED <<entries, validation, previous, clk, now, filteredEntries,
                   isProcessing, error, hasProcessed, uploads,
                   sortField, sortDirection, csvFile, settled>>

\* handleFilterChange(filtered), called by the effect of AdvancedFilters on
\* the filters tab with the records that pass its filters.
handleFilterChange(filtered) ==
    /\ Dashboard
    /\ activeTab = "filters"
    /\ filteredEntries' = filtered
    /\ UNCHANGED <<entries, validation, previous, clk, now, isProcessing, error,
                   hasProcessed, activeTab, uploads,
                   sortField, sortDirection, csvFile, settled>>

\* Mutant: the status of every record is set, selected or not.
updatedEntriesAll(es, selectedIds, newStatus) ==
    [index \in DOMAIN es |-> [es[index] EXCEPT !.timesheetStatus = newStatus]]

\* const updatedEntries = entries.map(...), selectedIds being the 1-based
\* positions that the selected ids name.
updatedEntries(es, selectedIds, newStatus) ==
    [index \in DOMAIN es |->
        IF index \in selectedIds
        THEN [es[index] EXCEPT !.timesheetStatus = newStatus]
        ELSE es[index]]

\* Mutant: the records are updated and the findings are left as they are.
handleBulkStatusUpdateStale(selectedIds, newStatus) ==
    /\ Dashboard
    /\ activeTab = "bulk"
    /\ selectedIds # {}
    /\ selectedIds \subseteq DOMAIN entries
    /\ entries' = updatedEntries(entries, selectedIds, newStatus)
    /\ filteredEntries' = entries'
    /\ UNCHANGED <<validation, previous, clk, now, isProcessing, error, hasProcessed,
                   activeTab, uploads, sortField, sortDirection, csvFile, settled>>

\* handleBulkStatusUpdate(selectedIds, newStatus), called by BulkOperations
\* on the bulk tab with a selection that is not empty and a status. An id is
\* `${entry.employeeId}-${index}`, which names one position: selectedIds is
\* the set of the 1-based positions selected. The state updates queued
\* before validateTimesheet throws are still applied.
handleBulkStatusUpdate(selectedIds, newStatus) ==
    /\ Dashboard
    /\ activeTab = "bulk"
    /\ selectedIds # {}
    /\ selectedIds \subseteq DOMAIN entries
    /\ entries' = updatedEntries(entries, selectedIds, newStatus)
    /\ filteredEntries' = entries'
    /\ \E reads \in Readings(now, Len(entries)) :
          \E newValidation \in {validateTimesheet(entries', reads)} :
             /\ now' = LastReading(reads, now)
             /\ clk' = reads
             /\ validation' = IF newValidation.kind = "result"
                              THEN newValidation ELSE validation
    /\ UNCHANGED <<previous, isProcessing, error, hasProcessed, activeTab,
                   uploads, sortField, sortDirection, csvFile, settled>>

SpecApp ==
    /\ entries = <<>> /\ validation = NoResult /\ previous = NoResult /\ clk = <<>>
    /\ now \in LateClocks
    /\ Mounted
    /\ [][\/ \E file \in DOMAIN UploadFiles : handleDrop(file)
          \/ \E file \in DOMAIN UploadFiles : handleFileChange(file)
          \/ \E i \in 1..MaxUploads : FileSelectSettles(i)
          \/ resetApp
          \/ \E tab \in {"overview", "analytics", "filters", "bulk"} : setActiveTab(tab)
          \/ \E e \in DOMAIN entries, field \in {"employeeId", "timesheetStatus"} :
                \/ handleFilterChange(entries)
                \/ handleFilterChange(SelectSeq(entries, LAMBDA x : x[field] = entries[e][field]))
          \/ \E selectedIds \in SUBSET DOMAIN entries,
                newStatus \in {"Approved", "Not Submitted"} :
                handleBulkStatusUpdate(selectedIds, newStatus)
          \/ Tick
      ]_vars

(***************************************************************************)
(* A mounted TimesheetTable (src/src/components/TimesheetTable.tsx) under  *)
(* the dashboard of App: the records and the result do not change, the     *)
(* user sorts, exports, and hands an exported file to parseCSV.            *)
(***************************************************************************)
\* The entries prop of the table on the active tab: filteredEntries on the
\* overview and filters tabs, entries on the bulk tab.
shownEntries == IF activeTab = "bulk" THEN entries ELSE filteredEntries

\* handleSort(field), a click on a column header.
handleSort(field) ==
    /\ Len(shownEntries) > 0
    /\ IF sortField = field
       THEN /\ sortDirection' = (IF sortDirection = "asc" THEN "desc" ELSE "asc")
            /\ UNCHANGED sortField
       ELSE /\ sortField' = field
            /\ sortDirection' = "asc"
    /\ UNCHANGED <<entries, validation, previous, clk, now, filteredEntries,
                   isProcessing, error, hasProcessed, activeTab, uploads,
                   csvFile, settled>>

\* exportToCSV, a click on the export button: the file downloaded holds the
\* rows in the order displayed. It is kept to be handed to parseCSV.
exportToCSV ==
    /\ Len(shownEntries) > 0
    /\ csvFile' = [readable |-> TRUE,
                   text |-> csvContent(sortedEntries(shownEntries, sortField,
                                                     sortDirection))]
    /\ settled' = NoResult
    /\ UNCHANGED <<entries, validation, previous, clk, now, filteredEntries,
                   isProcessing, error, hasProcessed, activeTab, uploads,
                   sortField, sortDirection>>

\* The table is mounted with its initial sort on a dashboard that shows
\* records validated at the clock's instant, all of them or those of one
\* employee or status. The records: one without a finding, one with an
\* earlier period and a status warning, one with a comma in its id.
SpecTable ==
    /\ entries \in SeqsUpTo(
          { [BaseEntry EXCEPT !.employeeId = "E2", !.startDate = "2025-01-13",
                              !.endDate = "2025-01-20"],
            [BaseEntry EXCEPT !.timesheetStatus = "Not Submitted",
                              !.reportedHours = 800, !.regularHours = 800,
                              !.totalHours = 800],
            [BaseEntry EXCEPT !.employeeId = "Doe, J"] }, MaxShown)
    /\ now = ClockLate
    /\ clk = [i \in DOMAIN entries |-> <<now, now>>]
    /\ validation = validateTimesheet(entries, clk)
    /\ previous = NoResult
    /\ \E e \in DOMAIN entries, field \in {"employeeId", "timesheetStatus"} :
          \/ filteredEntries = entries
          \/ filteredEntries = SelectSeq(entries, LAMBDA x : x[field] = entries[e][field])
    /\ activeTab \in {"overview", "filters", "bulk"}
    /\ isProcessing = FALSE /\ error = NoResult /\ hasProcessed = TRUE /\ uploads = <<>>
    /\ sortField = "startDate" /\ sortDirection = "asc"
    /\ csvFile = NoResult /\ settled = NoResult
    /\ [][\/ \E field \in {"startDate", "employeeId", "totalHours"} : handleSort(field)
          \/ exportToCSV
          \/ ParseFile
      ]_vars

(***************************************************************************)
(* Vocabulary of the properties.                                           *)
(***************************************************************************)
Done == validation.kind = "result"

Rows == 1..Len(entries)

Range(seq) == {seq[i] : i \in DOMAIN seq}

\* The number of findings of `seq` at row r.
CountAt(seq, r, P(_)) == Cardinality({i \in DOMAIN seq : seq[i].row = r /\ P(seq[i])})

\* The findings of `seq` at row r, in order.
AtRow(seq, r) == SelectSeq(seq, LAMBDA f : f.row = r)

\* `seq` with every row increased by k.
Shifted(seq, k) == [i \in DOMAIN seq |-> [seq[i] EXCEPT !.row = @ + k]]

NonDecreasingRows(seq) ==
    \A i \in DOMAIN seq : i > 1 => seq[i - 1].row <= seq[i].row

ClockRelative(f) == f.message \in {MsgFutureStart, MsgStaleEnd}

\* `seq` without the two findings that compare a date with the clock.
ClockFree(seq) == SelectSeq(seq, LAMBDA f : ~ClockRelative(f))

(***************************************************************************)
(* C1. isValid is true exactly when the result holds no finding of         *)
(* severity error, in either sequence; warnings never change isValid.      *)
(***************************************************************************)
C1_IsValidIffNoError ==
    Done =>
        (validation.isValid <=>
            \A f \in Range(validation.errors) \cup Range(validation.warnings) :
                f.severity # "error")

\* A batch with warnings and no error has been validated.
C1_Witness ==
    Done /\ validation.isValid /\ Len(validation.warnings) > 0 /\ Len(entries) > 1

(***************************************************************************)
(* C2. As claimed: validating the same record sequence twice yields the    *)
(* same errors sequence and the same warnings sequence.                    *)
(***************************************************************************)
C2_SameFindingsTwice ==
    (Done /\ previous.kind = "result") =>
        /\ previous.errors = validation.errors
        /\ previous.warnings = validation.warnings

(***************************************************************************)
(* C2, amended. Validating the same record sequence twice yields the same  *)
(* errors sequence, and the same warnings sequence once the two warnings   *)
(* that compare a date with the wall clock (future start, stale end) are   *)
(* set aside.                                                              *)
(***************************************************************************)
C2_SameFindingsUpToClock ==
    (Done /\ previous.kind = "result") =>
        /\ previous.errors = validation.errors
        /\ ClockFree(previous.warnings) = ClockFree(validation.warnings)

\* The same records were validated twice and the warnings differ.
C2_Witness ==
    /\ Done /\ previous.kind = "result"
    /\ previous.warnings # validation.warnings
    /\ Len(validation.errors) > 0

(***************************************************************************)
(* C3. Every finding of the record at 0-based position i carries row       *)
(* i + 1: the findings with row r are those of record r, no finding has a  *)
(* row outside 1..n, and in both sequences the rows never decrease.        *)
(***************************************************************************)
C3_RowsAreOneBased ==
    Done =>
        /\ \A f \in Range(validation.errors) \cup Range(validation.warnings) :
              f.row \in Rows
        /\ NonDecreasingRows(validation.errors)
        /\ NonDecreasingRows(validation.warnings)
        /\ \A r \in Rows :
              LET alone == validateTimesheet(<<entries[r]>>, <<clk[r]>>)
              IN  /\ AtRow(validation.errors, r) = Shifted(alone.errors, r - 1)
                  /\ AtRow(validation.warnings, r) = Shifted(alone.warnings, r - 1)

\* Three records validated, the first clean, the last with an error, one
\* with a warning.
C3_Witness ==
    /\ Done /\ Len(entries) = 3
    /\ \A f \in Range(validation.errors) \cup Range(validation.warnings) : f.row > 1
    /\ \E f \in Range(validation.errors) : f.row = 3
    /\ Len(validation.warnings) > 0

(***************************************************************************)
(* C4. Validation is stateless across records: for every split of the      *)
(* input into A ++ B, the errors (warnings) of A ++ B are the errors       *)
(* (warnings) of A followed by those of B with rows increased by Len(A).   *)
(***************************************************************************)
C4_Stateless ==
    Done =>
        \A k \in 0..Len(entries) :
            LET n == Len(entries)
                A == validateTimesheet(SubSeq(entries, 1, k), SubSeq(clk, 1, k))
                B == validateTimesheet(SubSeq(entries, k + 1, n), SubSeq(clk, k + 1, n))
            IN  /\ validation.errors = A.errors \o Shifted(B.errors, k)
                /\ validation.warnings = A.warnings \o Shifted(B.warnings, k)

\* Three records validated, with errors and warnings on the later ones.
C4_Witness ==
    /\ Done /\ Len(entries) = 3
    /\ \E f \in Range(validation.errors) : f.row = 2
    /\ \E f \in Range(validation.warnings) : f.row = 3
    /\ Falsy(entries[2].timesheetStatus)

(***************************************************************************)
(* C5. validateTimesheet never throws: every call returns a result, also   *)
(* on records whose strings are empty or missing and whose hours are zero  *)
(* or negative.                                                            *)
(***************************************************************************)
C5_NeverThrows ==
    /\ validation.kind # "threw"
    /\ previous.kind # "threw"
    /\ Done => /\ validation.isValid \in BOOLEAN
               /\ \A f \in Range(validation.errors) \cup Range(validation.warnings) :
                     f.severity \in {"error", "warning"}

\* A record without any string field and with zero and negative hours has
\* been validated.
C5_Witness ==
    /\ Done
    /\ \E r \in Rows :
          /\ entries[r].employeeId = Undefined
          /\ entries[r].timesheetStatus = Undefined
          /\ entries[r].scheduleHours = 0
          /\ entries[r].reportedHours < 0
          /\ \E f \in Range(validation.errors) : f.row = r

(***************************************************************************)
(* C6. For each of employeeId, startDate, endDate and timesheetStatus, a   *)
(* record yields exactly one error carrying that field name when the field *)
(* is empty or missing, and no required-field error for that field when it *)
(* is non-empty.                                                           *)
(***************************************************************************)
requiredMessages ==
    <<MsgIdRequired, MsgStartRequired, MsgEndRequired, MsgStatusRequired>>

C6_RequiredFields ==
    Done =>
        \A r \in Rows, k \in 1..4 :
            LET field == requiredFields[k]
                value == entries[r][field]
                OnField(f) == f.field = field
                IsRequired(f) == f.field = field /\ f.message = requiredMessages[k]
            IN  IF value \in {Undefined, ""}
                THEN /\ CountAt(validation.errors, r, OnField) = 1
                     /\ CountAt(validation.errors, r, IsRequired) = 1
                ELSE CountAt(validation.errors, r, IsRequired) = 0

\* A record with employeeId and endDate missing, startDate empty and a
\* status has been validated.
C6_Witness ==
    /\ Done
    /\ \E r \in Rows :
          /\ entries[r].employeeId = Undefined
          /\ entries[r].startDate = ""
          /\ entries[r].endDate = Undefined
          /\ entries[r].timesheetStatus = "Approved"
          /\ CountAt(validation.errors, r, LAMBDA f : TRUE) = 3

(***************************************************************************)
(* C7. A record yields the unknown-status warning on timesheetStatus,      *)
(* never an error, exactly when its status is non-empty and not one of the *)
(* six known statuses; a missing status yields the required-field error    *)
(* and no unknown-status warning.                                          *)
(***************************************************************************)
C7_KnownStatuses ==
    {"Approved", "Partially Submitted", "Needs Approval", "Not Submitted",
     "Absence/Holiday", "Partially Approved"}

C7_UnknownStatus ==
    Done =>
        \A r \in Rows :
            LET status == entries[r].timesheetStatus
                missing == status \in {Undefined, ""}
                IsUnknown(f) == f.field = "timesheetStatus" /\ f.message = MsgUnknownStatus
                IsRequired(f) == f.field = "timesheetStatus" /\ f.message = MsgStatusRequired
            IN  /\ CountAt(validation.warnings, r, IsUnknown) =
                      (IF ~missing /\ status \notin C7_KnownStatuses THEN 1 ELSE 0)
                /\ CountAt(validation.errors, r, IsUnknown) = 0
                /\ CountAt(validation.errors, r, IsRequired) = (IF missing THEN 1 ELSE 0)

\* A record with an unknown status has been validated and carries the warning.
C7_Witness ==
    /\ Done
    /\ \E r \in Rows :
          /\ entries[r].timesheetStatus = "Pending"
          /\ \E f \in Range(validation.warnings) :
                f.row = r /\ f.message = MsgUnknownStatus

(***************************************************************************)
(* C8. Date checks are gated: with startDate or endDate empty the record   *)
(* yields no date-format, date-order, long-period, future-start or         *)
(* stale-end finding; with both non-empty, each date string that fails to  *)
(* parse yields one error on its own field, and the order, span, future    *)
(* and staleness checks run only if both dates parse.                      *)
(***************************************************************************)
C8_FormatMessages == {MsgStartFormat, MsgEndFormat}

C8_RangeMessages == {MsgEndAfterStart, MsgLongPeriod, MsgFutureStart, MsgStaleEnd}

C8_DateChecksGated ==
    Done =>
        \A r \in Rows :
            LET e == entries[r]
                present == e.startDate \notin {Undefined, ""} /\ e.endDate \notin {Undefined, ""}
                all == validation.errors \o validation.warnings
                IsDateFinding(f) == f.message \in C8_FormatMessages \cup C8_RangeMessages
                IsRange(f) == f.message \in C8_RangeMessages
                IsStartFormat(f) == f.field = "startDate" /\ f.message = MsgStartFormat
                IsEndFormat(f) == f.field = "endDate" /\ f.message = MsgEndFormat
                IsFormat(f) == f.message \in C8_FormatMessages
            IN  IF ~present
                THEN CountAt(all, r, IsDateFinding) = 0
                ELSE /\ CountAt(validation.errors, r, IsStartFormat) =
                           (IF NewDate(e.startDate).valid THEN 0 ELSE 1)
                     /\ CountAt(validation.errors, r, IsEndFormat) =
                           (IF NewDate(e.endDate).valid THEN 0 ELSE 1)
                     /\ CountAt(all, r, IsFormat) =
                           CountAt(validation.errors, r, IsStartFormat)
                           + CountAt(validation.errors, r, IsEndFormat)
                     /\ (~NewDate(e.startDate).valid \/ ~NewDate(e.endDate).valid)
                           => CountAt(all, r, IsRange) = 0

\* A record with an empty start date and an end date that does not parse
\* has been validated: the gate keeps the format check from running.
C8_Witness ==
    /\ Done
    /\ \E r \in Rows :
          /\ entries[r].startDate = ""
          /\ entries[r].endDate = "not-a-date"
          /\ CountAt(validation.errors, r, LAMBDA f : TRUE) = 1

(***************************************************************************)
(* C9. When both dates are present and parse, the record yields an error   *)
(* on endDate exactly when the end date is earlier than or equal to the    *)
(* start date: equal dates are an error, a strictly later end date is not. *)
(***************************************************************************)
C9_EndAfterStart ==
    Done =>
        \A r \in Rows :
            LET e == entries[r]
                sd == NewDate(e.startDate)
                ed == NewDate(e.endDate)
                OnEnd(f) == f.field = "endDate"
                IsOrder(f) == f.field = "endDate" /\ f.message = MsgEndAfterStart
            IN  (~Falsy(e.startDate) /\ ~Falsy(e.endDate) /\ sd.valid /\ ed.valid) =>
                    /\ CountAt(validation.errors, r, OnEnd) =
                          (IF ed.time < sd.time \/ ed.time = sd.time THEN 1 ELSE 0)
                    /\ CountAt(validation.errors, r, IsOrder) =
                          CountAt(validation.errors, r, OnEnd)
                    /\ CountAt(validation.warnings, r, IsOrder) = 0

\* A record whose end date equals its start date has been validated and
\* carries the error.
C9_Witness ==
    /\ Done
    /\ \E r \in Rows :
          /\ entries[r].startDate = "2025-01-06"
          /\ entries[r].endDate = "2025-01-06"
          /\ \E f \in Range(validation.errors) :
                f.row = r /\ f.field = "endDate" /\ f.message = MsgEndAfterStart

(***************************************************************************)
(* C10. When both dates parse, the record yields the long-period warning   *)
(* exactly when the span from start to end exceeds 14 days: a period of    *)
(* exactly 14 days yields none, a period of 15 days yields one.            *)
(***************************************************************************)
C10_LongPeriod ==
    Done =>
        \A r \in Rows :
            LET e == entries[r]
                sd == NewDate(e.startDate)
                ed == NewDate(e.endDate)
                IsLong(f) == f.field = "endDate" /\ f.message = MsgLongPeriod
                long == CountAt(validation.warnings, r, IsLong)
            IN  (~Falsy(e.startDate) /\ ~Falsy(e.endDate) /\ sd.valid /\ ed.valid) =>
                    /\ long = (IF ed.time - sd.time > 14 * 24 THEN 1 ELSE 0)
                    /\ CountAt(validation.errors, r, IsLong) = 0
                    /\ (e.startDate = "2025-01-06" /\ e.endDate = "2025-01-20") => long = 0
                    /\ (e.startDate = "2025-01-06" /\ e.endDate = "2025-01-21") => long = 1

\* A record spanning exactly 14 days has been validated, without the warning.
C10_Witness ==
    /\ Done
    /\ \E r \in Rows :
          /\ entries[r].startDate = "2025-01-06"
          /\ entries[r].endDate = "2025-01-20"
          /\ \A f \in Range(validation.warnings) : f.message # MsgLongPeriod

(***************************************************************************)
(* C12. For scheduled hours s, a record yields an error on scheduleHours   *)
(* exactly when s < 0 and a warning on scheduleHours exactly when s > 80;  *)
(* a value in the closed range 0..80 (80 included) yields neither.         *)
(***************************************************************************)
C12_ScheduleRange ==
    Done =>
        \A r \in Rows :
            LET s == entries[r].scheduleHours
                OnSchedule(f) == f.field = "scheduleHours"
                errs  == CountAt(validation.errors, r, OnSchedule)
                warns == CountAt(validation.warnings, r, OnSchedule)
            IN  /\ errs = (IF s < 0 THEN 1 ELSE 0)
                /\ warns = (IF s > 80 * 100 THEN 1 ELSE 0)
                /\ (0 <= s /\ s <= 80 * 100) => (errs = 0 /\ warns = 0)
                /\ \A f \in Range(validation.errors) :
                      (f.row = r /\ OnSchedule(f)) =>
                          f.severity = "error" /\ f.message = MsgScheduleNeg
                /\ \A f \in Range(validation.warnings) :
                      (f.row = r /\ OnSchedule(f)) =>
                          f.severity = "warning" /\ f.message = MsgScheduleHigh

\* A record scheduled for exactly 80 hours has been validated and carries no
\* finding on scheduleHours.
C12_Witness ==
    /\ Done
    /\ \E r \in Rows :
          /\ entries[r].scheduleHours = 8000
          /\ \A f \in Range(validation.errors) \cup Range(validation.warnings) :
                f.row = r => f.field # "scheduleHours"

(***************************************************************************)
(* C13. For each of the six fields reportedHours, regularHours,            *)
(* overtimeHours, holidayHours, leaveHours and totalHours, a record yields *)
(* one cannot-be-negative error carrying that field name exactly when the  *)
(* field's value is negative; a record with k negative fields among the    *)
(* six yields k such errors.                                               *)
(***************************************************************************)
C13_NegativeHours ==
    Done =>
        \A r \in Rows :
            LET e == entries[r]
                six == {"reportedHours", "regularHours", "overtimeHours",
                        "holidayHours", "leaveHours", "totalHours"}
                IsNegative(f) == f.message = MsgNegative
                k == Cardinality({fld \in six : e[fld] < 0})
            IN  /\ \A fld \in six :
                      LET Carries(f) == IsNegative(f) /\ f.field = fld
                      IN  CountAt(validation.errors, r, Carries)
                              = (IF e[fld] < 0 THEN 1 ELSE 0)
                /\ CountAt(validation.errors, r, IsNegative) = k
                /\ CountAt(validation.warnings, r, IsNegative) = 0
                /\ \A f \in Range(validation.errors) :
                      IsNegative(f) => f.severity = "error"

\* A record with exactly three negative hour fields, the first and the last
\* of the six among them, has been validated and carries three such errors.
C13_Witness ==
    /\ Done
    /\ \E r \in Rows :
          /\ entries[r].reportedHours < 0
          /\ entries[r].totalHours < 0
          /\ entries[r].overtimeHours < 0
          /\ entries[r].regularHours >= 0
          /\ entries[r].holidayHours >= 0
          /\ entries[r].leaveHours >= 0
          /\ Cardinality({i \in DOMAIN validation.errors :
                             validation.errors[i].row = r
                             /\ validation.errors[i].message = MsgNegative}) = 3

(***************************************************************************)
(* C15. When reportedHours > scheduleHours a record yields exactly one     *)
(* reported-exceeds-scheduled finding on reportedHours: a warning if its   *)
(* status is Approved, Partially Approved or Partially Submitted, and an   *)
(* error for every other status (Needs Approval, Not Submitted,            *)
(* Absence/Holiday, unknown or missing); when reportedHours <=             *)
(* scheduleHours it yields no such finding. So reported=50, scheduled=40   *)
(* gives one warning with status Approved and one error instead with       *)
(* status Needs Approval.                                                  *)
(***************************************************************************)
C15_ReportedVsSchedule ==
    Done =>
        \A r \in Rows :
            LET e == entries[r]
                IsExceed(f) == /\ f.field = "reportedHours"
                               /\ f.message \in {MsgExceedWarn, MsgExceedErr}
                IsExceedWarning(f) == /\ f.field = "reportedHours"
                                      /\ f.message = MsgExceedWarn
                                      /\ f.severity = "warning"
                IsExceedError(f) == /\ f.field = "reportedHours"
                                    /\ f.message = MsgExceedErr
                                    /\ f.severity = "error"
                errs  == CountAt(validation.errors, r, IsExceed)
                warns == CountAt(validation.warnings, r, IsExceed)
                lenient == e.timesheetStatus \in
                              {"Approved", "Partially Approved", "Partially Submitted"}
            IN  /\ CountAt(validation.errors, r, IsExceedError) = errs
                /\ CountAt(validation.warnings, r, IsExceedWarning) = warns
                /\ e.reportedHours > e.scheduleHours =>
                      /\ errs + warns = 1
                      /\ warns = (IF lenient THEN 1 ELSE 0)
                /\ e.reportedHours <= e.scheduleHours => errs + warns = 0
                /\ (e.reportedHours = 50 * 100 /\ e.scheduleHours = 40 * 100) =>
                      /\ e.timesheetStatus = "Approved" => (warns = 1 /\ errs = 0)
                      /\ e.timesheetStatus = "Needs Approval" => (warns = 0 /\ errs = 1)

\* A record with reported 50 over scheduled 40 and status Needs Approval has
\* been validated and carries the error.
C15_Witness ==
    /\ Done
    /\ \E r \in Rows :
          /\ entries[r].reportedHours = 5000
          /\ entries[r].scheduleHours = 4000
          /\ entries[r].timesheetStatus = "Needs Approval"
          /\ \E f \in Range(validation.errors) :
                f.row = r /\ f.message = MsgExceedErr

(***************************************************************************)
(* Vocabulary of the status rules.                                         *)
(***************************************************************************)
\* The warnings on timesheetStatus of row r.
StatusWarnings(r) ==
    CountAt(validation.warnings, r, LAMBDA f : f.field = "timesheetStatus")

\* The warnings of row r on timesheetStatus with the message m.
StatusWarningsWith(r, m) ==
    CountAt(validation.warnings, r,
            LAMBDA f : f.field = "timesheetStatus" /\ f.message = m)

AllZero(e) ==
    /\ e.reportedHours = 0 /\ e.regularHours = 0 /\ e.overtimeHours = 0
    /\ e.holidayHours = 0 /\ e.leaveHours = 0

NonePositive(e) ==
    /\ e.reportedHours <= 0 /\ e.regularHours <= 0 /\ e.overtimeHours <= 0
    /\ e.holidayHours <= 0 /\ e.leaveHours <= 0

NoHoursStatuses ==
    {"Approved", "Partially Approved", "Needs Approval", "Partially Submitted"}

NoHoursMessage(st) ==
    IF st \in {"Approved", "Partially Approved"}
    THEN MsgApprovedNoHours ELSE MsgSubmittedNoHours

(***************************************************************************)
(* C17. As claimed: for a record whose status is Approved, Partially       *)
(* Approved, Needs Approval or Partially Submitted, a status-consistency   *)
(* warning on timesheetStatus is emitted exactly when reported, regular,   *)
(* overtime, holiday and leave hours are all zero.                         *)
(***************************************************************************)
C17_NoHoursIffAllZero ==
    Done =>
        \A r \in Rows :
            entries[r].timesheetStatus \in NoHoursStatuses =>
                StatusWarnings(r) = (IF AllZero(entries[r]) THEN 1 ELSE 0)

(***************************************************************************)
(* C17, amended. For a record whose status is Approved, Partially          *)
(* Approved, Needs Approval or Partially Submitted, a status-consistency   *)
(* warning on timesheetStatus is emitted exactly when none of reported,    *)
(* regular, overtime, holiday and leave hours is greater than zero.        *)
(***************************************************************************)
C17_NoHoursIffNonePositive ==
    Done =>
        \A r \in Rows :
            LET e == entries[r]
            IN  e.timesheetStatus \in NoHoursStatuses =>
                    /\ StatusWarnings(r) = (IF NonePositive(e) THEN 1 ELSE 0)
                    /\ StatusWarningsWith(r, NoHoursMessage(e.timesheetStatus))
                          = StatusWarnings(r)

\* An approved record whose only recorded hours are negative has been
\* validated and carries the warning.
C17_Witness ==
    /\ Done
    /\ \E r \in Rows :
          /\ entries[r].timesheetStatus = "Approved"
          /\ entries[r].reportedHours < 0
          /\ NonePositive(entries[r])
          /\ StatusWarningsWith(r, MsgApprovedNoHours) = 1

(***************************************************************************)
(* C18. As claimed: for a record whose status is Not Submitted, a          *)
(* status-consistency warning on timesheetStatus is emitted exactly when   *)
(* any of reported, regular, overtime, holiday or leave hours is recorded  *)
(* (is not zero).                                                          *)
(***************************************************************************)
C18_NotSubmittedIffNonzero ==
    Done =>
        \A r \in Rows :
            entries[r].timesheetStatus = "Not Submitted" =>
                StatusWarnings(r) = (IF ~AllZero(entries[r]) THEN 1 ELSE 0)

(***************************************************************************)
(* C18, amended. For a record whose status is Not Submitted, a             *)
(* status-consistency warning on timesheetStatus is emitted exactly when   *)
(* any of reported, regular, overtime, holiday or leave hours is greater   *)
(* than zero.                                                              *)
(***************************************************************************)
C18_NotSubmittedIffPositive ==
    Done =>
        \A r \in Rows :
            LET e == entries[r]
            IN  e.timesheetStatus = "Not Submitted" =>
                    /\ StatusWarnings(r) = (IF ~NonePositive(e) THEN 1 ELSE 0)
                    /\ StatusWarningsWith(r, MsgNotSubmitted) = StatusWarnings(r)

\* A Not Submitted record whose only recorded hours are negative regular
\* hours has been validated and carries no status warning.
C18_Witness ==
    /\ Done
    /\ \E r \in Rows :
          /\ entries[r].timesheetStatus = "Not Submitted"
          /\ entries[r].regularHours < 0
          /\ NonePositive(entries[r])
          /\ StatusWarnings(r) = 0

(***************************************************************************)
(* C19. As claimed: for a record whose status is Absence/Holiday, a        *)
(* status-consistency warning on timesheetStatus is emitted exactly when   *)
(* regular hours or overtime hours are nonzero; holiday, leave and         *)
(* reported hours never trigger it.                                        *)
(***************************************************************************)
C19_AbsenceIffNonzero ==
    Done =>
        \A r \in Rows :
            LET e == entries[r]
            IN  e.timesheetStatus = "Absence/Holiday" =>
                    StatusWarnings(r)
                        = (IF e.regularHours # 0 \/ e.overtimeHours # 0 THEN 1 ELSE 0)

(***************************************************************************)
(* C19, amended. For a record whose status is Absence/Holiday, a           *)
(* status-consistency warning on timesheetStatus is emitted exactly when   *)
(* regular hours or overtime hours are greater than zero; holiday, leave   *)
(* and reported hours never trigger it.                                    *)
(***************************************************************************)
C19_AbsenceIffPositive ==
    Done =>
        \A r \in Rows :
            LET e == entries[r]
            IN  e.timesheetStatus = "Absence/Holiday" =>
                    /\ StatusWarnings(r)
                          = (IF e.regularHours > 0 \/ e.overtimeHours > 0 THEN 1 ELSE 0)
                    /\ StatusWarningsWith(r, MsgAbsence) = StatusWarnings(r)

\* An absence record with holiday and reported hours and no regular or
\* overtime hours has been validated and carries no status warning.
C19_Witness ==
    /\ Done
    /\ \E r \in Rows :
          /\ entries[r].timesheetStatus = "Absence/Holiday"
          /\ entries[r].holidayHours > 0
          /\ entries[r].reportedHours > 0
          /\ entries[r].regularHours = 0 /\ entries[r].overtimeHours = 0
          /\ StatusWarnings(r) = 0

(***************************************************************************)
(* Vocabulary of scenario A.                                               *)
(***************************************************************************)
\* Status Approved, scheduled 40, reported 40, regular 40, overtime, holiday
\* and leave 0, total 40, an employee id and valid dates 7 days apart.
IsScenarioA(e) ==
    /\ ~Falsy(e.employeeId)
    /\ e.timesheetStatus = "Approved"
    /\ e.scheduleHours = 40 * 100 /\ e.reportedHours = 40 * 100
    /\ e.regularHours = 40 * 100 /\ e.totalHours = 40 * 100
    /\ e.overtimeHours = 0 /\ e.holidayHours = 0 /\ e.leaveHours = 0
    /\ ~Falsy(e.startDate) /\ ~Falsy(e.endDate)
    /\ NewDate(e.startDate).valid /\ NewDate(e.endDate).valid
    /\ NewDate(e.endDate).time - NewDate(e.startDate).time = 7 * 24

NoFindingAt(r) ==
    \A f \in Range(validation.errors) \cup Range(validation.warnings) : f.row # r

(***************************************************************************)
(* C20. As claimed, scenario A: a record with status Approved, scheduled   *)
(* 40, reported 40, regular 40, overtime, holiday and leave 0, total 40    *)
(* and valid dates 7 days apart yields zero errors and zero warnings.      *)
(***************************************************************************)
C20_ScenarioA ==
    Done => \A r \in Rows : IsScenarioA(entries[r]) => NoFindingAt(r)

(***************************************************************************)
(* C20, amended. Scenario A yields zero errors and zero warnings when, at  *)
(* the time of the evaluation, its start date is not in the future and its *)
(* end date is not more than one calendar year in the past.                *)
(***************************************************************************)
C20_ScenarioARecent ==
    Done =>
        \A r \in Rows :
            LET e  == entries[r]
                c1 == clk[r][1]
                c2 == clk[r][2]
            IN  ( /\ IsScenarioA(e)
                  /\ NewDate(e.startDate).time <= TimeOf(c1)
                  /\ NewDate(e.endDate).time >= DateUTC(c2.y - 1, c2.m, c2.d, c2.h) )
                    => NoFindingAt(r)

\* Scenario A, dated a few weeks back, has been validated as the second
\* record of a batch and carries no finding.
C20_Witness ==
    /\ Done
    /\ Len(entries) >= 2
    /\ IsScenarioA(entries[2])
    /\ entries[2].startDate = "2025-01-06"
    /\ NoFindingAt(2)

(***************************************************************************)
(* Vocabulary of the clock rules.                                          *)
(***************************************************************************)
\* The instant one calendar year before the clock reading c.
OneYearBefore(c) == DateUTC(c.y - 1, c.m, c.d, c.h)

FutureWarnings(r) ==
    CountAt(validation.warnings, r,
            LAMBDA f : f.field = "startDate" /\ f.message = MsgFutureStart)

StaleWarnings(r) ==
    CountAt(validation.warnings, r,
            LAMBDA f : f.field = "endDate" /\ f.message = MsgStaleEnd)

BothParse(e) ==
    /\ ~Falsy(e.startDate) /\ ~Falsy(e.endDate)
    /\ NewDate(e.startDate).valid /\ NewDate(e.endDate).valid

(***************************************************************************)
(* C11. When both dates parse, with 'now' the evaluation time, the record  *)
(* yields a warning on startDate exactly when the start date is later than *)
(* now, and a warning on endDate exactly when the end date is more than    *)
(* one calendar year before now. The evaluation of a record reads the      *)
(* clock twice, at c1 and then at c2: the property is required only where  *)
(* every 'now' from c1 to c2 agrees on what is later than now and what is  *)
(* more than a year before it.                                             *)
(***************************************************************************)
C11_ClockWarnings ==
    Done =>
        \A r \in Rows :
            LET e  == entries[r]
                sd == NewDate(e.startDate)
                ed == NewDate(e.endDate)
                c1 == clk[r][1]
                c2 == clk[r][2]
            IN  BothParse(e) =>
                    /\ FutureWarnings(r) <= 1
                    /\ StaleWarnings(r) <= 1
                    /\ sd.time > TimeOf(c2) => FutureWarnings(r) = 1
                    /\ sd.time <= TimeOf(c1) => FutureWarnings(r) = 0
                    /\ ed.time < OneYearBefore(c1) => StaleWarnings(r) = 1
                    /\ ed.time >= OneYearBefore(c2) => StaleWarnings(r) = 0

(***************************************************************************)
(* C11, where it holds: the same property for the evaluations whose two    *)
(* clock readings fall in the same calendar year.                          *)
(***************************************************************************)
C11_ClockWarningsSameYear ==
    Done =>
        \A r \in Rows :
            LET e  == entries[r]
                sd == NewDate(e.startDate)
                ed == NewDate(e.endDate)
                c1 == clk[r][1]
                c2 == clk[r][2]
            IN  (BothParse(e) /\ c1.y = c2.y) =>
                    /\ FutureWarnings(r) = (IF sd.time > TimeOf(c1) THEN 1 ELSE 0)
                    /\ StaleWarnings(r) = (IF ed.time < OneYearBefore(c2) THEN 1 ELSE 0)

\* A record whose end date lies between one and two years back has been
\* validated while the year turned between the two readings of the clock.
C11_YearTurns ==
    /\ Done
    /\ \E r \in Rows :
          /\ BothParse(entries[r])
          /\ entries[r].endDate = "2023-06-01"
          /\ clk[r][1] = ClockYearEnd
          /\ clk[r][2] = ClockNewYear
          /\ StaleWarnings(r) = 0

(***************************************************************************)
(* Vocabulary of the total rules.                                          *)
(***************************************************************************)
\* regular + overtime + holiday + leave, as a decimal in hundredths.
DecimalSum(e) == e.regularHours + e.overtimeHours + e.holidayHours + e.leaveHours

MismatchErrors(r) ==
    CountAt(validation.errors, r,
            LAMBDA f : f.field = "totalHours" /\ f.message = MsgTotalMismatch)

(***************************************************************************)
(* C14. A record yields the total-mismatch error on totalHours exactly     *)
(* when totalHours > 0 and the absolute difference between totalHours and  *)
(* regular+overtime+holiday+leave exceeds 0.01: a total within 0.01 of the *)
(* sum yields no total-mismatch finding, and a total 0.02 over the sum     *)
(* yields one. The hours are the decimals of the records.                  *)
(***************************************************************************)
C14_TotalMismatch ==
    Done =>
        \A r \in Rows :
            LET e == entries[r]
                d == Abs(e.totalHours - DecimalSum(e))
            IN  /\ MismatchErrors(r) = (IF e.totalHours > 0 /\ d > 1 THEN 1 ELSE 0)
                /\ d <= 1 => MismatchErrors(r) = 0
                /\ (e.totalHours > 0 /\ e.totalHours - DecimalSum(e) = 2) =>
                      MismatchErrors(r) = 1

(***************************************************************************)
(* C14, where it holds: the same property for the records whose total is   *)
(* not exactly 0.01 away from the sum of the breakdown.                    *)
(***************************************************************************)
C14_TotalMismatchOffBoundary ==
    Done =>
        \A r \in Rows :
            LET e == entries[r]
                d == Abs(e.totalHours - DecimalSum(e))
            IN  d # 1 =>
                    MismatchErrors(r) = (IF e.totalHours > 0 /\ d > 1 THEN 1 ELSE 0)

\* A record with a total of 1.01 hours and 1.00 regular hours has been
\* validated and carries the total-mismatch error.
C14_FlaggedWithinTolerance ==
    /\ Done
    /\ \E r \in Rows :
          /\ entries[r].totalHours = 101
          /\ entries[r].regularHours = 100
          /\ DecimalSum(entries[r]) = 100
          /\ MismatchErrors(r) = 1

\* A record with a total of 40.01 hours and 40.00 regular hours has been
\* validated and carries no total-mismatch error.
C14_PassedWithinTolerance ==
    /\ Done
    /\ \E r \in Rows :
          /\ entries[r].totalHours = 4001
          /\ entries[r].regularHours = 4000
          /\ DecimalSum(entries[r]) = 4000
          /\ MismatchErrors(r) = 0

ScenarioAHours(e) ==
    /\ e.scheduleHours = 40 * 100 /\ e.reportedHours = 40 * 100
    /\ e.regularHours = 40 * 100 /\ e.totalHours = 40 * 100
    /\ e.overtimeHours = 0 /\ e.holidayHours = 0 /\ e.leaveHours = 0

\* Scenario A without its employee id and with the end date before the
\* start date, both dates parsing.
IsScenarioB(e) ==
    /\ Falsy(e.employeeId)
    /\ e.timesheetStatus = "Approved"
    /\ ScenarioAHours(e)
    /\ ~Falsy(e.startDate) /\ ~Falsy(e.endDate)
    /\ NewDate(e.startDate).valid /\ NewDate(e.endDate).valid
    /\ NewDate(e.endDate).time < NewDate(e.startDate).time

IsScenarioC(e) ==
    e.timesheetStatus = "Not Submitted" /\ e.reportedHours = 8 * 100

\* The only warning at row r is the not-submitted warning.
OnlyNotSubmittedWarning(r) ==
    AtRow(validation.warnings, r) = << Warn(r, "timesheetStatus", MsgNotSubmitted) >>

(***************************************************************************)
(* C22. As claimed, scenario C: a record with status Not Submitted and     *)
(* reported hours 8 yields exactly one warning, the 'Not submitted         *)
(* timesheet has hours recorded' warning.                                  *)
(***************************************************************************)
C22_ScenarioC ==
    Done => \A r \in Rows : IsScenarioC(entries[r]) => OnlyNotSubmittedWarning(r)

(***************************************************************************)
(* C22, amended. A record with status Not Submitted and reported hours 8   *)
(* yields exactly one warning, the 'Not submitted timesheet has hours      *)
(* recorded' warning, when its regular, overtime, holiday and leave hours  *)
(* do not sum to zero, its scheduled hours are at most 80, its dates parse *)
(* and lie at most 14 days apart, and at the time of the evaluation its    *)
(* start date is not in the future and its end date is not more than one   *)
(* calendar year in the past.                                              *)
(***************************************************************************)
C22_ScenarioCWithBreakdown ==
    Done =>
        \A r \in Rows :
            LET e  == entries[r]
                c1 == clk[r][1]
                c2 == clk[r][2]
            IN  ( /\ IsScenarioC(e)
                  /\ ~IsZero(calculatedTotal(e))
                  /\ e.scheduleHours <= 80 * 100
                  /\ BothParse(e)
                  /\ NewDate(e.endDate).time - NewDate(e.startDate).time <= 14 * 24
                  /\ NewDate(e.startDate).time <= TimeOf(c1)
                  /\ NewDate(e.endDate).time >= DateUTC(c2.y - 1, c2.m, c2.d, c2.h) )
                    => OnlyNotSubmittedWarning(r)

\* A Not Submitted record with reported hours 8 and regular hours 8 has been
\* validated and carries the one warning.
C22_Witness ==
    /\ Done
    /\ Len(entries) = 1
    /\ IsScenarioC(entries[1])
    /\ entries[1].regularHours = 800
    /\ entries[1].scheduleHours = 800
    /\ OnlyNotSubmittedWarning(1)
    /\ Len(validation.warnings) = 1

\* A Not Submitted record with reported hours 8 and no breakdown carries a
\* second warning.
C22_NoBreakdown ==
    /\ Done
    /\ Len(entries) = 1
    /\ IsScenarioC(entries[1])
    /\ entries[1].regularHours = 0
    /\ entries[1].scheduleHours = 800
    /\ validation.warnings =
          << Warn(1, "timesheetStatus", MsgNotSubmitted),
             Warn(1, "reportedHours", MsgNoBreakdown) >>

(***************************************************************************)
(* Vocabulary of the zero-total asymmetry.                                 *)
(***************************************************************************)
\* A total of zero beside a breakdown that does not sum to zero.
ZeroTotalWithBreakdown(e) == e.totalHours = 0 /\ ~IsZero(calculatedTotal(e))

\* The reported/breakdown-mismatch warnings on reportedHours at row r.
BreakdownWarnings(r) ==
    CountAt(validation.warnings, r,
            LAMBDA f : /\ f.field = "reportedHours"
                       /\ f.message \in {MsgNoBreakdown, MsgNoReported})

(***************************************************************************)
(* C26. As claimed: a record with totalHours == 0 and a nonzero            *)
(* regular+overtime+holiday+leave breakdown yields no total-mismatch       *)
(* error, and is instead always flagged by a reported/breakdown-mismatch   *)
(* warning on reportedHours.                                               *)
(***************************************************************************)
C26_ZeroTotalAlwaysFlagged ==
    Done =>
        \A r \in Rows :
            ZeroTotalWithBreakdown(entries[r]) =>
                MismatchErrors(r) = 0 /\ BreakdownWarnings(r) >= 1

(***************************************************************************)
(* C26, amended. A record with totalHours == 0 and a nonzero breakdown     *)
(* yields no total-mismatch error; it is flagged by a reported/breakdown-  *)
(* mismatch warning on reportedHours exactly when its reportedHours is 0   *)
(* and the breakdown sums to more than zero, and then by the one warning   *)
(* 'Hour breakdown provided but reported hours is zero'.                   *)
(***************************************************************************)
C26_ZeroTotalFlaggedIfUnreported ==
    Done =>
        \A r \in Rows :
            LET e == entries[r]
                unreported == /\ e.reportedHours = 0
                              /\ DoubleGreater(calculatedTotal(e), Zero)
            IN  ZeroTotalWithBreakdown(e) =>
                    /\ MismatchErrors(r) = 0
                    /\ BreakdownWarnings(r) = (IF unreported THEN 1 ELSE 0)
                    /\ unreported =>
                          \E f \in Range(validation.warnings) :
                              f = Warn(r, "reportedHours", MsgNoReported)

\* A record with total 0, reported 0 and regular hours 8 has been
\* validated: no total-mismatch error, one warning on reportedHours.
C26_Witness ==
    /\ Done
    /\ Len(entries) = 1
    /\ entries[1].totalHours = 0
    /\ entries[1].reportedHours = 0
    /\ entries[1].regularHours = 800
    /\ MismatchErrors(1) = 0
    /\ BreakdownWarnings(1) = 1

\* A record with total 0, reported 8 and regular hours 8 has been
\* validated and carries neither the error nor a warning on reportedHours.
C26_Unflagged ==
    /\ Done
    /\ Len(entries) = 1
    /\ entries[1].totalHours = 0
    /\ entries[1].reportedHours = 800
    /\ entries[1].regularHours = 800
    /\ MismatchErrors(1) = 0
    /\ BreakdownWarnings(1) = 0

(***************************************************************************)
(* Vocabulary of the hour columns.                                         *)
(***************************************************************************)
\* What the claim has each raw value of RawValues become, in hundredths: the
\* number a value spells as a whole, and 0 for every other value.
ClaimedHours(raw) ==
    CASE raw = <<"8">> -> 800
      [] raw = <<"0">> -> 0
      [] raw = <<"-", "8">> -> -800
      [] raw = <<"8", ".", "5">> -> 850
      [] raw = <<".", "5">> -> 50
      [] raw = <<"0", "8", ".", "5", "0">> -> 850
      [] raw = <<" ", "8", " ">> -> 800
      [] OTHER -> 0

\* A raw value that does not spell a number but starts with one.
StartsWithNumber(raw) ==
    raw \in { <<"8", "abc">>, <<"8", " ", "abc">>, <<"1", ",", "5">>,
              <<"8", ".", "5", ".", "5">> }

\* The record parsed from the file holds h as its total and g as its
\* regular hours, and 0 in the hour fields without a column.
ParsedHours(h, g) ==
    /\ settled.kind = "resolved"
    /\ Len(settled.data) = 1
    /\ settled.data[1].totalHours = h
    /\ settled.data[1].regularHours = g
    /\ \A f \in numericFields \ {"totalHours", "regularHours"} : settled.data[1][f] = 0

(***************************************************************************)
(* C24. Every record produced by parseCSV has each hour field as a number: *)
(* a raw value that is absent, blank or non-numeric becomes 0, and a       *)
(* numeric raw value becomes that number.                                  *)
(***************************************************************************)
C24_HourFieldsNormalised ==
    \A total, regular \in RawValues \cup {NoValue} :
        (csvFile = HourFile(total, regular) /\ settled # NoResult) =>
            ParsedHours(ClaimedHours(total), ClaimedHours(regular))

(***************************************************************************)
(* C24, where it holds: the same for raw values that are absent, blank, a  *)
(* number as a whole, or that do not start with a number.                  *)
(***************************************************************************)
C24_WholeValuesNormalised ==
    \A total, regular \in RawValues \cup {NoValue} :
        ( /\ csvFile = HourFile(total, regular) /\ settled # NoResult
          /\ ~StartsWithNumber(total) /\ ~StartsWithNumber(regular) ) =>
            ParsedHours(ClaimedHours(total), ClaimedHours(regular))

\* The raw total '8abc' has been parsed to 8 hours, and the raw regular
\* hours '1,5' to 1 hour.
C24_PrefixRead ==
    /\ csvFile = HourFile(<<"8", "abc">>, <<"1", ",", "5">>)
    /\ ParsedHours(800, 100)

(***************************************************************************)
(* Vocabulary of the application.                                          *)
(***************************************************************************)
\* The files on which the delimited-text reader reports at least one error.
FilesWithErrors ==
    {name \in DOMAIN UploadFiles :
        /\ UploadFiles[name].readable
        /\ Len(PapaParse(UploadFiles[name].text).errors) > 0}

\* The calls that settle the promise of parseCSV for each of the files.
SettleCallsOf == [name \in DOMAIN UploadFiles |-> SettleCalls(UploadFiles[name])]

\* The sequence s without its i-th element.
Without(s, i) == SubSeq(s, 1, i - 1) \o SubSeq(s, i + 1, Len(s))

\* The findings of the result on the 1-based row.
FindingsOnRow(r) ==
    Len(SelectSeq(validation.errors, LAMBDA f : f.row = r))
    + Len(SelectSeq(validation.warnings, LAMBDA f : f.row = r))

(***************************************************************************)
(* C23. Parse failure is atomic: for a file on which the reader reports an *)
(* error, the promise of parseCSV is settled by exactly one call, a        *)
(* rejection with a single error that hands over no records; and the step  *)
(* of handleFileSelect that takes the rejection leaves entries empty,      *)
(* validation null and a message in error.                                 *)
(***************************************************************************)
C23_ParseFailureAtomic ==
    /\ [](\A i \in DOMAIN uploads :
             uploads[i] \in FilesWithErrors =>
                /\ Len(SettleCallsOf[uploads[i]]) = 1
                /\ SettleCallsOf[uploads[i]][1].kind = "rejected"
                /\ DOMAIN SettleCallsOf[uploads[i]][1] = {"kind", "message"}
                /\ parsedEntries[uploads[i]] = SettleCallsOf[uploads[i]][1])
    /\ [][\A i \in DOMAIN uploads :
             (uploads[i] \in FilesWithErrors /\ uploads' = Without(uploads, i)) =>
                /\ entries' = <<>>
                /\ validation' = NoResult
                /\ error' # NoResult]_vars

\* The upload of the file with the unquoted comma has failed: its message
\* is shown and there is neither a record nor a result.
C23_Witness ==
    /\ error = [kind |-> "message", text |-> <<"CSV parsing error", "TooManyFields">>]
    /\ entries = <<>>
    /\ validation = NoResult
    /\ uploads = <<>>

(***************************************************************************)
(* C27. Findings are recomputed from scratch: whenever validation is not   *)
(* null it is the result of validateTimesheet on the current entries (with *)
(* the clock readings of the call that produced it), so that after a bulk  *)
(* status update no finding survives that the updated records do not       *)
(* produce.                                                                *)
(***************************************************************************)
C27_FindingsRecomputed ==
    validation # NoResult => validation = validateTimesheet(entries, clk)

\* After a bulk update of the second record of the two-record file from
\* Not Submitted to Approved, its warning is gone.
C27_Witness ==
    /\ Dashboard
    /\ Len(entries) = 2
    /\ entries[2] = [parsedEntries.records.data[2] EXCEPT !.timesheetStatus = "Approved"]
    /\ FindingsOnRow(2) = 0

\* The clock has moved on since the records were validated, and a call of
\* validateTimesheet would now return another result.
C27_ClockMoved ==
    /\ Dashboard
    /\ \E reads \in Readings(now, Len(entries)) :
          validation # validateTimesheet(entries, reads)

(***************************************************************************)
(* C28. handleBulkStatusUpdate builds a new record sequence: for every     *)
(* selection and status, the sequence built from the current entries has   *)
(* their length, each selected record differs from its original in the     *)
(* status only, which is the new one, and each other record is its         *)
(* original, at the same position; and a step that leaves the dashboard up *)
(* and settles no upload changes entries in no other way.                  *)
(***************************************************************************)
C28_BulkUpdateFrame ==
    /\ [](\A selectedIds \in SUBSET DOMAIN entries :
             \A newStatus \in {"Approved", "Not Submitted"} :
                LET updated == updatedEntries(entries, selectedIds, newStatus)
                IN  /\ DOMAIN updated = DOMAIN entries
                    /\ \A i \in DOMAIN entries :
                          /\ i \in selectedIds =>
                                /\ updated[i].timesheetStatus = newStatus
                                /\ \A f \in DOMAIN entries[i] \ {"timesheetStatus"} :
                                      updated[i][f] = entries[i][f]
                                /\ DOMAIN updated[i] = DOMAIN entries[i]
                          /\ i \notin selectedIds => updated[i] = entries[i])
    /\ [][(Len(entries) > 0 /\ Len(entries') > 0 /\ uploads' = uploads) =>
          /\ Len(entries') = Len(entries)
          /\ \E selected \in SUBSET DOMAIN entries :
                \E e \in DOMAIN entries :
                   \A i \in DOMAIN entries :
                      entries'[i] =
                         IF i \in selected
                         THEN [entries[i] EXCEPT
                                  !.timesheetStatus = entries'[e].timesheetStatus]
                         ELSE entries[i]]_vars

\* Of the two records uploaded, the first has been set to Not Submitted and
\* differs from the record parsed in nothing else; the second is as parsed.
C28_Witness ==
    /\ Len(entries) = 2
    /\ entries[1] = [parsedEntries.records.data[1] EXCEPT
                        !.timesheetStatus = "Not Submitted"]
    /\ parsedEntries.records.data[1].timesheetStatus = "Approved"
    /\ entries[2] = parsedEntries.records.data[2]

(***************************************************************************)
(* C29. In every state of App, also with uploads overlapping, an error     *)
(* that is not null implies that entries is empty and validation is null.  *)
(***************************************************************************)
C29_ErrorImpliesNoResults ==
    error # NoResult => (Len(entries) = 0 /\ validation = NoResult)

\* The message of a failed upload is shown together with the records and
\* the result of another upload, and nothing is in flight any more.
C29_ErrorWithResults ==
    /\ error # NoResult
    /\ Dashboard
    /\ uploads = <<>>

(***************************************************************************)
(* Vocabulary of the table.                                                *)
(***************************************************************************)
\* The rows of the table, in the order displayed.
DisplayedRows == sortedEntries(shownEntries, sortField, sortDirection)

\* The record has a finding in the result: it stands at a position of the
\* validated sequence that a finding names.
RecordHasFinding(record) ==
    \E k \in DOMAIN entries : entries[k] = record /\ FindingsOnRow(k) > 0

\* The sequences that the table can export: the records shown, sorted.
SortedViews ==
    { sortedEntries(shownEntries, field, direction) :
         field \in {"startDate", "employeeId", "totalHours"},
         direction \in {"asc", "desc"} }

\* A record whose text fields are present and hold no comma.
IsPlain(record) ==
    /\ record.employeeId \notin {Undefined, "Doe, J"}
    /\ record.timesheetStatus # Undefined

(***************************************************************************)
(* C30. For every sort field, direction and filtered subset, the row       *)
(* displayed at an index is highlighted exactly when the record shown in   *)
(* it has an error or a warning in the validation result.                  *)
(***************************************************************************)
C30_HighlightMatchesRecord ==
    Len(entries) > 0 =>
        \A i \in DOMAIN DisplayedRows :
            hasIssues(validation.errors, validation.warnings, i - 1)
               <=> RecordHasFinding(DisplayedRows[i])

(***************************************************************************)
(* C30, where it holds: the same while the rows displayed are the          *)
(* validated sequence in its order.                                        *)
(***************************************************************************)
C30_HighlightInValidatedOrder ==
    (Len(entries) > 0 /\ DisplayedRows = entries) =>
        \A i \in DOMAIN DisplayedRows :
            hasIssues(validation.errors, validation.warnings, i - 1)
               <=> RecordHasFinding(DisplayedRows[i])

\* The record with the warning was validated second and is displayed first:
\* its row is not highlighted, the row of the clean record below it is.
C30_WrongRowHighlighted ==
    /\ Len(entries) = 2 /\ Len(DisplayedRows) = 2
    /\ DisplayedRows[1] = entries[2]
    /\ entries[1] # entries[2]
    /\ RecordHasFinding(entries[2]) /\ ~RecordHasFinding(entries[1])
    /\ ~hasIssues(validation.errors, validation.warnings, 0)
    /\ hasIssues(validation.errors, validation.warnings, 1)

(***************************************************************************)
(* C25. Round trip: the text that the export writes for a record sequence, *)
(* parsed by parseCSV, yields that sequence again, field by field and in   *)
(* the same order (the sequence being the sorted view that was exported).  *)
(***************************************************************************)
C25_RoundTrip ==
    settled # NoResult =>
        \E view \in SortedViews :
            /\ csvFile.text = csvContent(view)
            /\ settled = [kind |-> "resolved", data |-> view]

(***************************************************************************)
(* C25, where it holds: the same for records whose text fields are present *)
(* and hold no comma.                                                      *)
(***************************************************************************)
C25_RoundTripPlain ==
    (settled # NoResult /\ \A i \in DOMAIN shownEntries : IsPlain(shownEntries[i])) =>
        \E view \in SortedViews :
            /\ csvFile.text = csvContent(view)
            /\ settled = [kind |-> "resolved", data |-> view]

\* The export of a record with a comma in its id has been parsed: the row
\* has one cell too many and parseCSV rejects the file.
C25_ExportRejected ==
    /\ \E i \in DOMAIN shownEntries : shownEntries[i].employeeId = "Doe, J"
    /\ settled = [kind |-> "rejected", message |-> <<"CSV parsing error", "TooManyFields">>]

\* Two records shown against their start dates have been exported and
\* parsed: the records come back in the order displayed, not in theirs.
C25_ExportedInDisplayOrder ==
    /\ Len(shownEntries) = 2
    /\ settled = [kind |-> "resolved", data |-> <<shownEntries[2], shownEntries[1]>>]
    /\ shownEntries[1] # shownEntries[2]

====
